---- MODULE Spec2Model ----
(***************************************************************************)
(* SpaceBlack browser engine (v8, packaging/build/staged/tools/skills/     *)
(* browser/browser.py): the accessibility snapshot builder, the iframe     *)
(* content discoverer, the session manager, the interaction engine and    *)
(* the action dispatcher browser_act, as a state machine.                  *)
(*                                                                         *)
(* Strings are TLA+ strings, rendered as the code renders them.  The       *)
(* non-ASCII glyphs of the source are written with an ASCII glyph of the   *)
(* same length: the box-drawing dash as "-", the bullet as "*", the        *)
(* warning sign as "^", the arrow as ">" and the em/en dash as "-".        *)
(* Python's None is 0 for object ids and "" where the code only tests      *)
(* truthiness.                                                             *)
(***************************************************************************)
EXTENDS Integers, Sequences, FiniteSets, TLC

(***************************************************************************)
(* Program constants                                                       *)
(***************************************************************************)
_MAX_SNAPSHOT_CHARS == 4000
_MAX_ELEMENTS == 80

_INTERACTIVE_ROLES ==
  { "button", "link",
    "textbox", "searchbox", "combobox", "spinbutton",
    "checkbox", "radio",
    "menuitem", "menuitemcheckbox", "menuitemradio",
    "option", "tab", "switch", "treeitem",
    "slider", "listbox",
    "columnheader", "rowheader", "gridcell" }

_CONTENT_ROLES ==
  { "heading", "paragraph", "text", "statictext",
    "blockquote", "caption", "code",
    "listitem", "cell", "definition",
    "status", "alert", "log", "marquee", "timer",
    "contentinfo", "complementary", "main", "article",
    "navigation", "banner", "region", "form",
    "dialog", "alertdialog" }

(***************************************************************************)
(* Python string operations used by the engine                             *)
(***************************************************************************)
UpperLetters ==
  << "A","B","C","D","E","F","G","H","I","J","K","L","M",
     "N","O","P","Q","R","S","T","U","V","W","X","Y","Z" >>
LowerLetters ==
  << "a","b","c","d","e","f","g","h","i","j","k","l","m",
     "n","o","p","q","r","s","t","u","v","w","x","y","z" >>

\* Body(e) with e evaluated once, before Body: the value of a Python local
\* that is assigned once and read many times.
Strict(Body(_), e) == CHOOSE r \in { Body(x) : x \in { e } } : TRUE

\* str.lower() / str.upper() on one character
UpperSet == { UpperLetters[i] : i \in DOMAIN UpperLetters }
LowerSet == { LowerLetters[i] : i \in DOMAIN LowerLetters }
LowerChar(c) ==
  IF c \in UpperSet
  THEN LowerLetters[CHOOSE i \in DOMAIN UpperLetters : UpperLetters[i] = c]
  ELSE c
UpperChar(c) ==
  IF c \in LowerSet
  THEN UpperLetters[CHOOSE i \in DOMAIN LowerLetters : LowerLetters[i] = c]
  ELSE c

\* str.lower(), character by character over s[lo..hi]
RECURSIVE LowerRange(_, _, _)
LowerRange(s, lo, hi) ==
  IF lo > hi THEN ""
  ELSE IF lo = hi THEN LowerChar(SubSeq(s, lo, lo))
  ELSE LowerRange(s, lo, (lo + hi) \div 2) \o LowerRange(s, (lo + hi) \div 2 + 1, hi)
Lower(s) == Strict(LAMBDA v : LowerRange(v, 1, Len(v)), s)

\* str.capitalize(): first character upper-cased, the rest lower-cased
Capitalize(s) ==
  IF Len(s) = 0 THEN ""
  ELSE UpperChar(SubSeq(s, 1, 1)) \o Lower(SubSeq(s, 2, Len(s)))

\* str.strip(): leading and trailing blanks removed
RECURSIVE FirstNonBlank(_, _)
FirstNonBlank(s, i) ==
  IF i > Len(s) \/ SubSeq(s, i, i) # " " THEN i ELSE FirstNonBlank(s, i + 1)
RECURSIVE LastNonBlank(_, _)
LastNonBlank(s, i) ==
  IF i < 1 \/ SubSeq(s, i, i) # " " THEN i ELSE LastNonBlank(s, i - 1)
StripValue(s) ==
  Strict(LAMBDA first :
           IF first > Len(s) THEN "" ELSE SubSeq(s, first, LastNonBlank(s, Len(s))),
         FirstNonBlank(s, 1))
Strip(s) == Strict(LAMBDA v : StripValue(v), s)

\* s[:n]
Slice(s, n) == IF Len(s) <= n THEN s ELSE SubSeq(s, 1, n)

\* s * n
RECURSIVE Rep(_, _)
Rep(s, n) ==
  IF n <= 0 THEN ""
  ELSE IF n % 2 = 0 THEN LET h == Rep(s, n \div 2) IN h \o h
  ELSE s \o Rep(s, n - 1)

\* repr(s) of a str holding no quote, backslash or control character
Repr(s) == "'" \o s \o "'"

\* f"{n:>3}"
RJust3(n) ==
  LET s == ToString(n) IN IF Len(s) >= 3 THEN s ELSE Rep(" ", 3 - Len(s)) \o s

\* A for loop over seq threading acc through Step(acc, item).  The range is
\* halved and the first half evaluated before the second starts, so that the
\* evaluation depth stays logarithmic in the length.
RECURSIVE FoldRange(_, _, _, _, _)
FoldRange(Step(_, _), seq, lo, hi, acc) ==
  IF lo > hi THEN acc
  ELSE IF lo = hi THEN Step(acc, seq[lo])
  ELSE Strict(LAMBDA first : FoldRange(Step, seq, (lo + hi) \div 2 + 1, hi, first),
              FoldRange(Step, seq, lo, (lo + hi) \div 2, acc))
FoldSeq(Step(_, _), seq, acc) ==
  Strict(LAMBDA s : Strict(LAMBDA a : FoldRange(Step, s, 1, Len(s), a), acc), seq)

\* "\n".join(lines)
RECURSIVE JoinRange(_, _, _)
JoinRange(lines, lo, hi) ==
  IF lo > hi THEN ""
  ELSE IF lo = hi THEN lines[lo]
  ELSE JoinRange(lines, lo, (lo + hi) \div 2) \o "\n"
         \o JoinRange(lines, (lo + hi) \div 2 + 1, hi)
JoinLines(lines) == Strict(LAMBDA ls : JoinRange(ls, 1, Len(ls)), lines)

\* sum(len(l) for l in lines)
RECURSIVE SumLenRange(_, _, _)
SumLenRange(lines, lo, hi) ==
  IF lo > hi THEN 0
  ELSE IF lo = hi THEN Len(lines[lo])
  ELSE SumLenRange(lines, lo, (lo + hi) \div 2)
         + SumLenRange(lines, (lo + hi) \div 2 + 1, hi)
SumLen(lines) == Strict(LAMBDA ls : SumLenRange(ls, 1, Len(ls)), lines)

Min(a, b) == IF a <= b THEN a ELSE b

\* d[k] = v on a dict
Put(d, k, v) == (k :> v) @@ d

(***************************************************************************)
(* Element registry                                                        *)
(***************************************************************************)
\* @dataclass _Elem
_Elem(backend_node_id, role, name, value, frame_index, selector) ==
  [ backend_node_id |-> backend_node_id, role |-> role, name |-> name,
    value |-> value, description |-> "",
    frame_index |-> frame_index, selector |-> selector ]

EmptyRegistry == << >>

(***************************************************************************)
(* AX tree helpers.  An AX node is a record                                *)
(*   [nodeId, ignored, role, name, value, backendDOMNodeId, childIds]      *)
(* with "" for a missing string and 0 for a missing backendDOMNodeId.      *)
(***************************************************************************)
_ax_role(node) == Strip(Lower(node.role))
_ax_name(node) == Strip(node.name)
_ax_value(node) == Strip(node.value)
_ax_backend_id(node) == node.backendDOMNodeId
_ax_ignored(node) == node.ignored

\* id_to_node: the last node of the list with each non-empty nodeId
IdToNodeDomain(nodes) ==
  { nodes[i].nodeId : i \in { j \in DOMAIN nodes : nodes[j].nodeId # "" } }
id_to_node(nodes) ==
  [ nid \in IdToNodeDomain(nodes) |->
      nodes[CHOOSE i \in DOMAIN nodes :
              /\ nodes[i].nodeId = nid
              /\ \A j \in DOMAIN nodes : nodes[j].nodeId = nid => j <= i] ]

child_set(nodes) ==
  UNION { { nodes[i].childIds[k] : k \in DOMAIN nodes[i].childIds } :
          i \in DOMAIN nodes }

NodeIds(ns) == [ i \in 1..Len(ns) |-> ns[i].nodeId ]
root_ids(nodes) ==
  LET cs == child_set(nodes)
      IsRoot(n) == n.nodeId # "" /\ n.nodeId \notin cs
  IN NodeIds(SelectSeq(nodes, IsRoot))

(***************************************************************************)
(* Snapshot builder: _build_snapshot.  The walk's mutable locals           *)
(* (registry, lines, ref_counter, total_chars) are the record st, which    *)
(* also keeps two observations of the run: visits, the node ids walk       *)
(* examined (calls that passed the caps and found the node), in order, and *)
(* fallback, whether the flat scan ran.                                    *)
(***************************************************************************)
WalkStart ==
  [ registry |-> EmptyRegistry, lines |-> << >>,
    ref_counter |-> 0, total_chars |-> 0,
    visits |-> << >>, fallback |-> FALSE ]

\* lines.append(line); total_chars += len(line)
AddLine(st, line) ==
  [ st EXCEPT !.lines = Append(@, line), !.total_chars = @ + Len(line) ]

\* indent = "  " * min(depth, 6)
Indent(depth) == Rep("  ", Min(depth, 6))

\* walk: an interactive node gets the next ref, an _Elem and one line
walk_register(st, node, role, name, indent) ==
  LET value == _ax_value(node)
      ref == st.ref_counter + 1
      label == Capitalize(role)
      detail0 == IF name # "" THEN Repr(name) ELSE "(no label)"
      detail ==
        IF value # "" /\ role \in {"textbox", "searchbox", "combobox", "spinbutton"}
        THEN detail0 \o " value=" \o Repr(value)
        ELSE IF value # "" /\ role \in {"checkbox", "radio", "switch"}
        THEN detail0 \o " [" \o value \o "]"
        ELSE detail0
      line == indent \o "[" \o RJust3(ref) \o "] " \o label \o ": " \o detail
  IN [ st EXCEPT
         !.registry = Put(st.registry, ref,
                          _Elem(_ax_backend_id(node), role, name, value, 0, "")),
         !.lines = Append(st.lines, line),
         !.ref_counter = ref,
         !.total_chars = st.total_chars + Len(line) ]

\* walk: a content node renders one line (no ref)
walk_content(st, role, name, indent) ==
  IF role \in _CONTENT_ROLES /\ name # ""
  THEN LET line0 ==
             CASE role = "heading" -> indent \o "## " \o name
               [] role \in {"dialog", "alertdialog"} -> indent \o "^ DIALOG: " \o name
               [] role \in {"alert", "status"} -> indent \o "! " \o name
               [] role = "navigation" -> indent \o "[nav: " \o name \o "]"
               [] role = "listitem" -> indent \o "* " \o name
               [] OTHER -> indent \o name
           line == IF Len(line0) > 200 THEN SubSeq(line0, 1, 197) \o "..." ELSE line0
       IN AddLine(st, line)
  ELSE IF role \in {"statictext", "text"} /\ name # ""
  THEN LET text == Strip(Slice(name, 200))
       IN IF text # "" /\ Len(text) > 5 THEN AddLine(st, indent \o text) ELSE st
  ELSE st

RECURSIVE walk(_, _, _, _)
RECURSIVE walk_children(_, _, _, _)
\* for cid in ids: walk(cid, depth)
walk_children(idx, ids, depth, st) ==
  FoldSeq(LAMBDA acc, cid : walk(idx, cid, depth, acc), ids, st)

\* a variant that also walks the children of a node it registered
walk_into_registered(idx, node_id, depth, st0) ==
  IF st0.total_chars >= _MAX_SNAPSHOT_CHARS THEN st0
  ELSE IF st0.ref_counter >= _MAX_ELEMENTS THEN st0
  ELSE IF node_id \notin DOMAIN idx THEN st0
  ELSE
    LET node == idx[node_id]
        role == _ax_role(node)
        name == _ax_name(node)
        backend_id == _ax_backend_id(node)
        st == [ st0 EXCEPT !.visits = Append(@, node_id) ]
    IN IF _ax_ignored(node)
       THEN walk_children(idx, node.childIds, depth, st)
       ELSE IF role \in _INTERACTIVE_ROLES /\ backend_id # 0
       THEN IF name = "" /\ role \in {"button", "link", "menuitem"}
            THEN walk_children(idx, node.childIds, depth + 1, st)
            ELSE walk_children(idx, node.childIds, depth + 1,
                               walk_register(st, node, role, name, Indent(depth)))
       ELSE walk_children(idx, node.childIds, depth + 1,
                          walk_content(st, role, name, Indent(depth)))

walk(idx, node_id, depth, st0) ==
  IF st0.total_chars >= _MAX_SNAPSHOT_CHARS THEN st0
  ELSE IF st0.ref_counter >= _MAX_ELEMENTS THEN st0
  ELSE IF node_id \notin DOMAIN idx THEN st0
  ELSE
    LET node == idx[node_id]
        role == _ax_role(node)
        name == _ax_name(node)
        backend_id == _ax_backend_id(node)
        st == [ st0 EXCEPT !.visits = Append(@, node_id) ]
    IN IF _ax_ignored(node)
       THEN walk_children(idx, node.childIds, depth, st)
       ELSE IF role \in _INTERACTIVE_ROLES /\ backend_id # 0
       THEN IF name = "" /\ role \in {"button", "link", "menuitem"}
            THEN walk_children(idx, node.childIds, depth + 1, st)
            ELSE walk_register(st, node, role, name, Indent(depth))
       ELSE walk_children(idx, node.childIds, depth + 1,
                          walk_content(st, role, name, Indent(depth)))

\* flat fallback: one node of the raw list
flat_node(st, node) ==
  LET role == _ax_role(node)
      name == _ax_name(node)
      backend_id == _ax_backend_id(node)
  IN IF _ax_ignored(node) THEN st
     ELSE IF role \in _INTERACTIVE_ROLES /\ backend_id # 0
     THEN IF name = "" /\ role \in {"button", "link", "menuitem"}
          THEN st
          ELSE LET ref == st.ref_counter + 1
                   line == "[" \o RJust3(ref) \o "] " \o Capitalize(role)
                               \o ": " \o Repr(name)
               IN [ st EXCEPT
                      !.registry = Put(st.registry, ref,
                                       _Elem(backend_id, role, name, _ax_value(node), 0, "")),
                      !.lines = Append(st.lines, line),
                      !.ref_counter = ref,
                      !.total_chars = st.total_chars + Len(line) ]
     ELSE IF role \in _CONTENT_ROLES /\ name # "" /\ Len(name) > 3
     THEN LET prefix == IF role = "heading" THEN "## " ELSE ""
          IN AddLine(st, prefix \o Slice(name, 200))
     ELSE st

\* for node in nodes: if a cap is reached: break.  Neither counter ever
\* decreases, so after the break no later node passes the test either.
flat_fallback(nodes, st) ==
  FoldSeq(LAMBDA acc, node :
            IF acc.total_chars >= _MAX_SNAPSHOT_CHARS
               \/ acc.ref_counter >= _MAX_ELEMENTS
            THEN acc
            ELSE flat_node(acc, node),
          nodes, [ st EXCEPT !.fallback = TRUE ])

\* _build_snapshot(nodes) -> (registry, snapshot_body); the rendered lines are
\* kept beside the body they are joined into
BuildResult(walked, done) ==
  [ registry |-> done.registry,
    lines |-> done.lines,
    walk_out |-> [ registry |-> walked.registry, lines |-> walked.lines,
                   visits |-> walked.visits ],
    fallback |-> done.fallback,
    body |-> IF Len(done.lines) > 0 THEN JoinLines(done.lines)
             ELSE "(empty page - no content detected)" ]

\* a variant that runs the flat scan after every walk
_build_snapshot_always_flat(nodes) ==
  Strict(LAMBDA walked :
           Strict(LAMBDA done : BuildResult(walked, done),
                  flat_fallback(nodes, walked)),
         Strict(LAMBDA idx : walk_children(idx, root_ids(nodes), 0, WalkStart),
                id_to_node(nodes)))

_build_snapshot(nodes) ==
  Strict(LAMBDA walked :
           Strict(LAMBDA done : BuildResult(walked, done),
                  IF Len(walked.lines) = 0 THEN flat_fallback(nodes, walked)
                  ELSE walked),
         Strict(LAMBDA idx : walk_children(idx, root_ids(nodes), 0, WalkStart),
                id_to_node(nodes)))

(***************************************************************************)
(* Iframe content discoverer: _discover_iframe_elements.                   *)
(* page.frames is a sequence whose first entry is the main frame; a frame  *)
(* is [url, evaluate_fails, dom_elements], dom_elements being the visible  *)
(* candidates the in-page script finds, each [role, name, value, type,     *)
(* selector].                                                              *)
(***************************************************************************)
\* the script's "return results.slice(0, 50)"
FrameEvaluate(frame) == Slice(frame.dom_elements, 50)

\* a variant that gives a frame element a protocol handle as well
iframe_register_with_handle(acc, el_data, fi) ==
  LET ref == acc.ref + 1
  IN [ registry |-> Put(acc.registry, ref,
                        _Elem(ref, el_data.role, el_data.name, el_data.value, fi,
                              el_data.selector)),
       lines |-> Append(acc.lines, "  [" \o RJust3(ref) \o "] " \o Capitalize(el_data.role)),
       ref |-> ref ]

\* one el_data of a frame
iframe_register(acc, el_data, fi) ==
  LET ref == acc.ref + 1
      role == el_data.role
      name == el_data.name
      value == el_data.value
      label == Capitalize(role)
      d0 == IF name # "" THEN Repr(name) ELSE "(no label)"
      d1 == IF el_data.type # "" THEN d0 \o " type=" \o el_data.type ELSE d0
      detail ==
        IF value # "" /\ role \in {"input", "textarea", "textbox", "searchbox"}
        THEN d1 \o " value=" \o Repr(Slice(value, 30))
        ELSE d1
  IN [ registry |-> Put(acc.registry, ref,
                        _Elem(0, role, name, value, fi, el_data.selector)),
       lines |-> Append(acc.lines,
                        "  [" \o RJust3(ref) \o "] " \o label \o ": " \o detail),
       ref |-> ref ]

\* the cap test of the element loop
iframe_cap_reached(ref, start_ref) == ref >= start_ref + _MAX_ELEMENTS

\* for el_data in elements: if ref >= start_ref + _MAX_ELEMENTS: break.
\* ref never decreases, so after the break no later element passes the test.
iframe_elements(elements, fi, start_ref, acc0) ==
  FoldSeq(LAMBDA acc, el_data :
            IF iframe_cap_reached(acc.ref, start_ref) THEN acc
            ELSE iframe_register(acc, el_data, fi),
          elements, acc0)

\* iframe_frame with the frame header taking a ref number of its own
iframe_frame_header_numbered(acc, frame, fi, start_ref) ==
  LET elements == FrameEvaluate(frame)
      frame_url == IF frame.url # "" THEN Slice(frame.url, 60) ELSE "(embedded)"
      header == "\n-- Frame [" \o ToString(fi) \o "]: " \o frame_url \o " --"
  IN IF fi = 0 THEN acc
     ELSE IF frame.evaluate_fails THEN acc
     ELSE IF Len(elements) = 0 THEN acc
     ELSE iframe_elements(elements, fi, start_ref,
                          [acc EXCEPT !.lines = Append(@, header), !.ref = @ + 1])

\* one frame of page.frames, fi its index (0: the main frame)
iframe_frame(acc, frame, fi, start_ref) ==
  LET elements == FrameEvaluate(frame)
      frame_url == IF frame.url # "" THEN Slice(frame.url, 60) ELSE "(embedded)"
      header == "\n-- Frame [" \o ToString(fi) \o "]: " \o frame_url \o " --"
  IN IF fi = 0 THEN acc
     ELSE IF frame.evaluate_fails THEN acc
     ELSE IF Len(elements) = 0 THEN acc
     ELSE iframe_elements(elements, fi, start_ref,
                          [acc EXCEPT !.lines = Append(@, header)])

\* for fi, frame in enumerate(page.frames); position i is frame index i - 1
_discover_iframe_elements(frames, registry, start_ref) ==
  FoldSeq(LAMBDA acc, i : iframe_frame(acc, frames[i], i - 1, start_ref),
          [ i \in 1..Len(frames) |-> i ],
          [ registry |-> registry, lines |-> << >>, ref |-> start_ref ])

(***************************************************************************)
(* _take_snapshot.  What the call reads of the page is the record pv:      *)
(*   url, title, title_fails (page.title() raises), ax_fails (the tree     *)
(*   fetch raises or times out), nodes (the AX tree), frames (page.frames),*)
(*   tabs (urls of ctx.pages), tab_index (this page's place in it, 0 when  *)
(*   it is not there).                                                     *)
(***************************************************************************)
\* a variant that hands on the tree although the fetch failed
_get_ax_tree_unguarded(pv) == pv.nodes

\* _get_ax_tree: the nodes, or [] on any failure
_get_ax_tree(pv) == IF pv.ax_fails THEN << >> ELSE pv.nodes

\* for i, p in enumerate(pages): marker, index and url of each tab
TabLines(tabs, tab_index) ==
  [ i \in 1..Len(tabs) |->
      "  " \o (IF i = tab_index THEN ">" ELSE " ") \o " ["
           \o ToString(i - 1) \o "] " \o Slice(tabs[i], 80) ]

SnapshotFooter(n) ==
  "\n(" \o ToString(n) \o " interactive elements. Use ref=N to interact.)"

SnapshotHeader(pv) ==
  LET title == IF pv.title_fails THEN "(unknown)" ELSE pv.title
      tab_info == IF Len(pv.tabs) > 1
                  THEN "\nTabs:\n" \o JoinLines(TabLines(pv.tabs, pv.tab_index)) \o "\n"
                  ELSE ""
  IN "URL: " \o pv.url \o "\nTitle: " \o title \o tab_info

\* the iframe supplement: built is what _build_snapshot returned
SnapshotDiscover(pv, built) ==
  IF Len(pv.frames) > 1
  THEN _discover_iframe_elements(pv.frames, built.registry,
                                 Cardinality(DOMAIN built.registry))
  ELSE [ registry |-> built.registry, lines |-> << >>,
         ref |-> Cardinality(DOMAIN built.registry) ]

\* the v7 engine's snapshot of the same page, before it was taken
NoSnapshot_v7 == [ raised |-> FALSE, registry |-> EmptyRegistry, text |-> "" ]

SnapshotResult(pv, built, disc) ==
  LET total_interactive == Cardinality(DOMAIN disc.registry)
      iframe_section == IF Len(disc.lines) > 0 THEN "\n" \o JoinLines(disc.lines) ELSE ""
  IN [ done |-> TRUE,
       registry |-> disc.registry,
       first_registry |-> built.registry,
       body_lines |-> built.lines,
       iframe_lines |-> disc.lines,
       walk_out |-> built.walk_out,
       fallback |-> built.fallback,
       v7 |-> NoSnapshot_v7,
       text |-> SnapshotHeader(pv) \o "\n\n" \o built.body \o iframe_section
                  \o SnapshotFooter(total_interactive) ]

\* returns the snapshot text; registry is what the call leaves in
\* _REGISTRY[id(page)], first_registry what it stored there before the
\* iframe discovery
_take_snapshot(pv) ==
  Strict(LAMBDA built :
           Strict(LAMBDA disc : SnapshotResult(pv, built, disc),
                  SnapshotDiscover(pv, built)),
         _build_snapshot(_get_ax_tree(pv)))

(***************************************************************************)
(* The v7 engine's snapshot (src/tools/skills/browser/browser.py)          *)
(***************************************************************************)
_MAX_ELEMENTS_v7 == 150
_INTERACTIVE_ROLES_v7 == _INTERACTIVE_ROLES \cup { "row", "heading" }

\* _build_registry: one node of the flat list; rows holds the display lines
build_registry_node(acc, node) ==
  LET role == _ax_role(node)
      backend_id == _ax_backend_id(node)
      name == _ax_name(node)
  IN IF _ax_ignored(node) THEN acc
     ELSE IF role \notin _INTERACTIVE_ROLES_v7 THEN acc
     ELSE IF backend_id = 0 THEN acc
     ELSE IF name = "" /\ role \in {"button", "link", "menuitem"} THEN acc
     ELSE LET ref == acc.ref + 1
          IN [ registry |-> Put(acc.registry, ref,
                                _Elem(backend_id, role, name, "", 0, "")),
               rows |-> Append(acc.rows,
                               "[" \o RJust3(ref) \o "] " \o Capitalize(role) \o ": "
                                 \o Repr(IF name # "" THEN name ELSE "(no label)")),
               ref |-> ref ]

\* for node in nodes: if ref >= _MAX_ELEMENTS: break
_build_registry(nodes) ==
  FoldSeq(LAMBDA acc, node :
            IF acc.ref >= _MAX_ELEMENTS_v7 THEN acc
            ELSE build_registry_node(acc, node),
          nodes, [ registry |-> EmptyRegistry, rows |-> << >>, ref |-> 0 ])

NoElementsLine == "(no interactive elements found)"

\* a variant that joins the rows whether or not there are any
_take_snapshot_v7_bare(pv) ==
  IF pv.title_fails
  THEN [ raised |-> TRUE, registry |-> EmptyRegistry, text |-> "" ]
  ELSE Strict(LAMBDA built :
                [ raised |-> FALSE,
                  registry |-> built.registry,
                  text |-> JoinLines(<< "URL: " \o pv.url, "Title: " \o pv.title, "" >>
                                       \o built.rows) ],
              _build_registry(_get_ax_tree(pv)))

\* _take_snapshot of the v7 engine: page.title() is awaited unguarded, the
\* tree fetch returns [] on failure
_take_snapshot_v7(pv) ==
  IF pv.title_fails
  THEN [ raised |-> TRUE, registry |-> EmptyRegistry, text |-> "" ]
  ELSE Strict(LAMBDA built :
                [ raised |-> FALSE,
                  registry |-> built.registry,
                  text |-> JoinLines(<< "URL: " \o pv.url, "Title: " \o pv.title, "" >>
                                       \o (IF Len(built.rows) = 0
                                           THEN << NoElementsLine >>
                                           ELSE built.rows)) ],
              _build_registry(_get_ax_tree(pv)))

(***************************************************************************)
(* State                                                                   *)
(***************************************************************************)
VARIABLES
  snap_pv,    \* the page a snapshot is taken of (the record pv above)
  snap_out,   \* what _take_snapshot returned and stored for it
  session,    \* the class attributes of BrowserSession
  pages,      \* context.pages, as page ids
  doc,        \* the document each page shows
  closed,     \* the pages that are closed
  _REGISTRY,  \* id(page) -> registry
  held,       \* the registry a page had before its latest snapshot
  current,    \* the pages whose registry was built from the page as it is now
  launches,   \* how many times _launch started a driver
  calls,      \* how many browser_act calls were made
  call,       \* the call made that browser_act has not run yet
  last,       \* the browser_act call that returned last: arguments, result,
              \* what it did
  lock,       \* BrowserSession._lock: the task holding it
  task,       \* the concurrent browser_act coroutines: position and locals
  published,  \* id(page) -> the registry as it was when it was stored
  key_in,     \* the engine iteration and key _cdp_key is called with
  key_out,    \* the key events _cdp_key sent for it
  hung,       \* the browser contexts whose browser stopped answering
  ended,      \* the drivers that were stopped and the contexts that were closed
  v7          \* the v7 engine: its BrowserSession and its last browser_act call

keyVars == << key_in, key_out >>
snapVars == << snap_pv, snap_out, key_in, key_out, hung, ended, v7 >>
taskVars == << lock, task, published >>
engineVars == << session, pages, doc, closed, _REGISTRY, held, current, launches,
                calls, call, last, lock, task, published, key_in, key_out, hung, ended, v7 >>
vars == << snap_pv, snap_out, session, pages, doc, closed, _REGISTRY, held, current,
           launches, calls, call, last, lock, task, published, key_in, key_out, hung, ended, v7 >>

(***************************************************************************)
(* Pages the snapshot builder is applied to                                *)
(***************************************************************************)
MaxNodes == 2     \* nodes of an enumerated AX tree
MaxKinds == 7     \* node kinds an enumerated AX tree draws from

AXNode(nodeId, ignored, role, name, value, backendDOMNodeId, childIds) ==
  [ nodeId |-> nodeId, ignored |-> ignored, role |-> role, name |-> name,
    value |-> value, backendDOMNodeId |-> backendDOMNodeId,
    childIds |-> childIds ]

\* node kinds: [ignored, role, name, value, has_backend]
NodeKinds ==
  << [ignored |-> FALSE, role |-> "button",     name |-> "Go",          value |-> "",    has_backend |-> TRUE],
     [ignored |-> FALSE, role |-> "button",     name |-> "",            value |-> "",    has_backend |-> TRUE],
     [ignored |-> FALSE, role |-> "textbox",    name |-> "User",        value |-> "bob", has_backend |-> TRUE],
     [ignored |-> FALSE, role |-> "heading",    name |-> "Title",       value |-> "",    has_backend |-> TRUE],
     [ignored |-> TRUE,  role |-> "generic",    name |-> "",            value |-> "",    has_backend |-> TRUE],
     [ignored |-> FALSE, role |-> "StaticText", name |-> " Hello you ", value |-> "",    has_backend |-> FALSE],
     [ignored |-> FALSE, role |-> "link",       name |-> "More",        value |-> "",    has_backend |-> FALSE],
     [ignored |-> FALSE, role |-> "checkbox",   name |-> "",            value |-> "on",  has_backend |-> TRUE] >>

Kinds == 1..Min(MaxKinds, Len(NodeKinds))

\* childIds of node p: the nodes whose parent is p, in list order
RECURSIVE ChildIdsOf(_, _, _, _)
ChildIdsOf(parent, p, i, n) ==
  IF i > n THEN << >>
  ELSE (IF parent[i] = p THEN << ToString(i) >> ELSE << >>)
       \o ChildIdsOf(parent, p, i + 1, n)

\* the node list of n nodes, node i of kind kind[i] listed as a child of node
\* parent[i] (0: of no node).  A parent may be the node itself or a later
\* node: such lists are the malformed trees (no root above a cycle).
EnumTree(n, kind, parent) ==
  [ i \in 1..n |->
      LET k == NodeKinds[kind[i]]
      IN AXNode(ToString(i), k.ignored, k.role, k.name, k.value,
                IF k.has_backend THEN i ELSE 0,
                ChildIdsOf(parent, i, 1, n)) ]

EnumTrees ==
  UNION { { EnumTree(n, kind, parent) :
              kind \in [1..n -> Kinds], parent \in [1..n -> 0..n] } :
          n \in 0..MaxNodes }

\* n sibling roots of one role, each with a name of name_len characters
FlatTree(n, role, name_len) ==
  [ i \in 1..n |-> AXNode(ToString(i), FALSE, role, Rep("x", name_len), "", i, << >>) ]

LongLine == 200    \* the walk's per-line width (content lines are cut to it)

BigTrees ==
  { FlatTree(n, "button", 2) : n \in (_MAX_ELEMENTS - 1)..(_MAX_ELEMENTS + 1) }
  \cup { FlatTree(n, "paragraph", len) :
           n \in (_MAX_SNAPSHOT_CHARS \div LongLine)..(_MAX_SNAPSHOT_CHARS \div LongLine + 1),
           len \in (LongLine - 1)..(LongLine + 1) }
  \cup { FlatTree(_MAX_SNAPSHOT_CHARS \div LongLine + 2, "button", 2 * LongLine) }

DomElement(role, name, value, type, selector) ==
  [ role |-> role, name |-> name, value |-> value, type |-> type,
    selector |-> selector ]
Frame(url, evaluate_fails, dom_elements) ==
  [ url |-> url, evaluate_fails |-> evaluate_fails, dom_elements |-> dom_elements ]

MainFrame(url) == Frame(url, FALSE, << >>)
\* a child frame with n buttons
ButtonFrame(url, n) ==
  Frame(url, FALSE,
        [ i \in 1..n |-> DomElement("button", "B" \o ToString(i), "", "",
                                    "#b" \o ToString(i)) ])
SendFrame ==
  Frame("https://mail.test/compose", FALSE,
        << DomElement("button", "Send", "", "", "#send"),
           DomElement("INPUT", "", "hi", "text", "input[name=\"to\"]") >>)
BrokenFrame == Frame("https://ads.test/", TRUE, << DomElement("a", "Ad", "", "", "a") >>)
EmptyFrame == Frame("", FALSE, << >>)

SnapUrl == "https://site.test/"
SmallFrameSets ==
  { << MainFrame(SnapUrl) >>,
    << MainFrame(SnapUrl), SendFrame >>,
    << MainFrame(SnapUrl), BrokenFrame, EmptyFrame, SendFrame >> }
BigFrameSets ==
  { << MainFrame(SnapUrl) >>,
    << MainFrame(SnapUrl), SendFrame >>,
    << MainFrame(SnapUrl), ButtonFrame("https://f1.test/", 60),
       ButtonFrame("https://f2.test/", 60) >> }

PageView(nodes, frames, ax_fails, title_fails, tabs, tab_index) ==
  [ url |-> IF Len(tabs) > 0 /\ tab_index > 0 THEN tabs[tab_index] ELSE SnapUrl,
    title |-> "Site", title_fails |-> title_fails, ax_fails |-> ax_fails,
    nodes |-> nodes, frames |-> frames, tabs |-> tabs, tab_index |-> tab_index ]

\* a page whose text reads like an element line of the snapshot
QuotingTree ==
  << AXNode("1", FALSE, "button", "Go", "", 1, << >>),
     AXNode("2", FALSE, "paragraph", "[  1] Button: 'Pay now'", "", 2, << >>) >>

\* a node list in which node 3 is listed under two parents
SharedChildTree ==
  << AXNode("1", FALSE, "heading", "Title", "", 1, << "3" >>),
     AXNode("2", TRUE, "generic", "", "", 2, << "3", "9" >>),
     AXNode("3", FALSE, "button", "Go", "", 3, << >>) >>

\* a node list whose childIds form a cycle below the root: node 2 names
\* itself as a child, after a button whose label fills half the character
\* budget
LoopTree ==
  << AXNode("1", FALSE, "paragraph", "Intro text", "", 1, << "2" >>),
     AXNode("2", TRUE, "generic", "", "", 2, << "3", "2" >>),
     AXNode("3", FALSE, "button", Rep("x", _MAX_SNAPSHOT_CHARS \div 2), "", 3, << >>) >>

MalformedTrees == { SharedChildTree, LoopTree }

SnapInputs ==
  { PageView(t, f, FALSE, FALSE, << SnapUrl >>, 1) :
      t \in EnumTrees, f \in SmallFrameSets }
  \cup { PageView(QuotingTree, f, FALSE, FALSE, << SnapUrl >>, 1) : f \in SmallFrameSets }
  \cup { PageView(t, f, FALSE, FALSE, << SnapUrl >>, 1) :
           t \in MalformedTrees, f \in SmallFrameSets }
  \cup { PageView(t, f, FALSE, FALSE, << SnapUrl >>, 1) :
           t \in BigTrees, f \in BigFrameSets }
  \cup { PageView(FlatTree(2, "button", 2), << MainFrame(SnapUrl), SendFrame >>,
                  a, t, << SnapUrl, "about:blank" >>, 1) :
           a \in BOOLEAN, t \in BOOLEAN }
  \cup { PageView(FlatTree(2, "button", 2), f, TRUE, FALSE, << SnapUrl >>, 1) :
           f \in SmallFrameSets }

NoSnapshot ==
  [ done |-> FALSE, registry |-> EmptyRegistry, first_registry |-> EmptyRegistry,
    body_lines |-> << >>, iframe_lines |-> << >>,
    walk_out |-> [ registry |-> EmptyRegistry, lines |-> << >>, visits |-> << >> ],
    fallback |-> FALSE, v7 |-> NoSnapshot_v7,
    text |-> "" ]

(***************************************************************************)
(* The v7 engine's session and dispatcher                                  *)
(* (src/tools/skills/browser/browser.py).  A session is the record         *)
(*   [_playwright, _browser, _context, _cdp: set or not; _page: the place  *)
(*    of the active page in ctx.pages, 0 for None; pages: how many pages   *)
(*    the context has open; page_closed: the active page is closed].       *)
(* faults is the set of operations that raise during the call.             *)
(***************************************************************************)
MaxV7Tabs == 2     \* pages open in the v7 context at once
MaxV7Calls == 3    \* v7 browser_act calls in one run

NoSession_v7 ==
  [ _playwright |-> FALSE, _browser |-> FALSE, _context |-> FALSE, _cdp |-> FALSE,
    _page |-> 0, pages |-> 0, page_closed |-> FALSE ]
NoCall_v7 == [ action |-> "", faults |-> {}, result |-> "", raised |-> "" ]
V7Start == [ s |-> NoSession_v7, calls |-> 0, last |-> NoCall_v7 ]

\* outcomes of a v7 step: the session after it, the string returned (if any)
\* and the exception that left it (if any)
Returned_v7(s, result) == [ s |-> s, result |-> result, raised |-> "" ]
Raised_v7(s, point) == [ s |-> s, result |-> "", raised |-> point \o " failed" ]
SnapshotText_v7 == "URL: ...\nTitle: ...\n\n..."

\* _take_snapshot: page.title() is awaited without a guard
take_snapshot_v7(s, faults) ==
  IF "title" \in faults THEN Raised_v7(s, "page.title")
  ELSE Returned_v7(s, SnapshotText_v7)

\* BrowserSession.close_all: save_state and detach are guarded,
\* browser.close() and playwright.stop() are not
close_all_v7(s, faults) ==
  IF s._browser /\ "browser.close" \in faults THEN Raised_v7(s, "browser.close")
  ELSE IF s._playwright /\ "playwright.stop" \in faults
  THEN Raised_v7([ s EXCEPT !.pages = 0, !.page_closed = (s._page # 0) ],
                 "playwright.stop")
  ELSE Returned_v7(NoSession_v7, "")

\* BrowserSession._launch
launch_v7(s, faults) ==
  IF "launch" \in faults
  THEN Raised_v7([ s EXCEPT !._playwright = TRUE ], "chromium.launch")
  ELSE Returned_v7([ _playwright |-> TRUE, _browser |-> TRUE, _context |-> TRUE,
                     _cdp |-> TRUE, _page |-> 1, pages |-> 1, page_closed |-> FALSE ],
                   "")

\* BrowserSession.get_page
get_page_v7(s, faults) ==
  IF s._page = 0 \/ s.page_closed THEN launch_v7(s, faults) ELSE Returned_v7(s, "")

\* BrowserSession._cdp = await ctx.new_cdp_session(p); Accessibility.enable;
\* return await _take_snapshot(page, cdp)
attach_and_snapshot_v7(s, faults) ==
  IF "new_cdp_session" \in faults THEN Raised_v7(s, "new_cdp_session")
  ELSE take_snapshot_v7([ s EXCEPT !._cdp = TRUE ], faults)

\* the branches of browser_act after get_page returned
dispatch_v7(s, action, kw, faults) ==
  CASE action = "navigate" ->
         IF kw.url = "" THEN Returned_v7(s, "Error: navigate needs url=...")
         ELSE IF "goto" \in faults
         THEN Returned_v7(s, "Navigation error: page.goto failed")
         ELSE IF "title" \in faults
         THEN Returned_v7(s, "Navigation error: page.title failed")
         ELSE Returned_v7(s, "Navigated to " \o kw.url \o ".\n\n" \o SnapshotText_v7)
    [] action = "screenshot" ->
         IF "screenshot" \in faults THEN Raised_v7(s, "page.screenshot")
         ELSE Returned_v7(s, "Screenshot saved: shot.png")
    [] action = "scroll" ->
         IF "wheel" \in faults THEN Raised_v7(s, "mouse.wheel")
         ELSE take_snapshot_v7(s, faults)
    [] action = "back" ->
         IF "go_back" \in faults THEN Raised_v7(s, "page.go_back")
         ELSE take_snapshot_v7(s, faults)
    [] action = "forward" ->
         IF "go_forward" \in faults THEN Raised_v7(s, "page.go_forward")
         ELSE take_snapshot_v7(s, faults)
    [] action = "new_tab" ->
         IF kw.url = "" THEN Returned_v7(s, "Error: new_tab needs url=...")
         ELSE IF ~s._context THEN Returned_v7(s, "Error: no browser context.")
         ELSE IF "new_page" \in faults THEN Raised_v7(s, "ctx.new_page")
         ELSE LET opened == [ s EXCEPT !.pages = @ + 1, !._page = s.pages + 1 ]
              IN IF "new_cdp_session" \in faults
                 THEN Raised_v7(opened, "new_cdp_session")
                 ELSE IF "goto" \in faults THEN Raised_v7(opened, "page.goto")
                 ELSE take_snapshot_v7(opened, faults)
    [] action = "switch_tab" ->
         IF ~s._context THEN Returned_v7(s, "Error: no browser context.")
         ELSE IF kw.index < 0 \/ kw.index >= s.pages
         THEN Returned_v7(s, "Error: tab index " \o ToString(kw.index)
                               \o " out of range (0-" \o ToString(s.pages - 1) \o ").")
         ELSE attach_and_snapshot_v7([ s EXCEPT !._page = kw.index + 1 ], faults)
    [] action = "close_tab" ->
         IF ~s._context THEN Returned_v7(s, "Error: no browser context.")
         ELSE IF "page.close" \in faults THEN Raised_v7(s, "page.close")
         ELSE IF s.pages > 1
         THEN attach_and_snapshot_v7([ s EXCEPT !.pages = @ - 1, !._page = s.pages - 1 ],
                                     faults)
         ELSE Returned_v7([ s EXCEPT !.pages = 0, !.page_closed = TRUE ],
                          "Tab closed. No remaining tabs.")
    [] action = "press" ->
         IF kw.key = "" THEN Returned_v7(s, "Error: press needs key=...")
         ELSE IF "cdp_key" \in faults THEN Raised_v7(s, "Input.dispatchKeyEvent")
         ELSE take_snapshot_v7(s, faults)
    [] OTHER -> Returned_v7(s, "Unknown action: '" \o action \o "'.")

\* browser_act of the v7 engine
browser_act_v7(s, action_arg, kw, faults) ==
  LET action == Strip(Lower(action_arg))
  IN IF action = "close"
     THEN LET closed_ == close_all_v7(s, faults)
          IN IF closed_.raised # "" THEN closed_
             ELSE Returned_v7(closed_.s, "Browser closed.")
     ELSE LET got == get_page_v7(s, faults)
          IN IF got.raised # ""
             THEN Returned_v7(got.s, "Browser start failed: " \o got.raised)
             ELSE dispatch_v7(got.s, action, kw, faults)

(***************************************************************************)
(* The browser the engine drives: documents, pages, page ids               *)
(***************************************************************************)
MaxPageIds == 3   \* distinct values id(page) takes
MaxTabs == 2      \* pages open in the context at once
MaxCalls == 3     \* browser_act calls in one run

None == 0
PageIds == 1..MaxPageIds
Range(seq) == { seq[i] : i \in DOMAIN seq }

UrlA == "https://a.test/"
UrlB == "https://b.test/"
UrlBad == "https://nowhere.invalid/"
UrlC == "https://c.test/"

\* the documents a page can show; inner_text is what the frames' text
\* extraction script returns for the main frame
DocNames == { "blank", "a", "a2", "b", "c" }
Docs ==
  [ d \in DocNames |->
      CASE d = "blank" ->
             [ url |-> "about:blank", title |-> "", nodes |-> << >>,
               frames |-> << MainFrame("about:blank") >>, inner_text |-> "" ]
        [] d = "a" ->
             [ url |-> UrlA, title |-> "Inbox",
               nodes |-> << AXNode("1", FALSE, "RootWebArea", "Inbox", "", 1, << "2", "3", "4" >>),
                            AXNode("2", FALSE, "heading", "Your inbox", "", 10, << >>),
                            AXNode("3", FALSE, "button", "Delete", "", 11, << >>),
                            AXNode("4", FALSE, "button", "Save", "", 12, << >>) >>,
               frames |-> << MainFrame(UrlA), SendFrame >>,
               inner_text |-> "Your inbox: one message from Bob" ]
        [] d = "a2" ->
             [ url |-> UrlA, title |-> "Inbox",
               nodes |-> << AXNode("1", FALSE, "RootWebArea", "Inbox", "", 1, << "2", "4" >>),
                            AXNode("2", FALSE, "heading", "Your inbox", "", 10, << >>),
                            AXNode("4", FALSE, "button", "Save", "", 12, << >>) >>,
               frames |-> << MainFrame(UrlA), SendFrame >>,
               inner_text |-> "Your inbox: no messages" ]
        [] d = "b" ->
             [ url |-> UrlB, title |-> "Shop",
               nodes |-> << AXNode("1", FALSE, "RootWebArea", "Shop", "", 1, << "2", "3" >>),
                            AXNode("2", FALSE, "link", "Inbox", "", 21, << >>),
                            AXNode("3", FALSE, "combobox", "Size", "s", 22, << >>) >>,
               frames |-> << MainFrame(UrlB) >>,
               inner_text |-> "" ]
        [] d = "c" ->
             [ url |-> UrlC, title |-> "Mail",
               nodes |-> << AXNode("1", FALSE, "RootWebArea", "Mail", "", 1, << "2" >>),
                            AXNode("2", FALSE, "button", "Compose", "", 31, << >>) >>,
               frames |-> << MainFrame(UrlC), SendFrame, ButtonFrame("https://f1.test/", 1) >>,
               inner_text |-> "" ] ]

\* the document a URL loads, "" when the navigation fails with an error
DocOfUrl(url) ==
  CASE url = UrlA -> "a"
    [] url = UrlB -> "b"
    [] url = UrlC -> "c"
    [] url = "about:blank" -> "blank"
    [] OTHER -> ""

\* backend node ids of the document's DOM
LiveNodes(d) == { Docs[d].nodes[i].backendDOMNodeId : i \in DOMAIN Docs[d].nodes }

\* the options of an element, each [text, value]: the Size select of document
\* b has two, no other element has any
Options(d, backend_node_id) ==
  IF d = "b" /\ backend_node_id = 22
  THEN << [ text |-> " Small ", value |-> "s" ], [ text |-> "Large", value |-> "xl" ] >>
  ELSE << >>

\* what the page does when an element receives a click: the Delete button of
\* document a removes itself, the link of document b loads document a
ClickEffect(d, backend_node_id) ==
  CASE d = "a" /\ backend_node_id = 11 -> "a2"
    [] d = "b" /\ backend_node_id = 21 -> "a"
    [] OTHER -> d

\* the protocol and driver calls a run can make fail
FaultPoints ==
  { "launch", "probe", "reattach", "detach", "context_close", "stop",
    "goto_timeout", "goto_error", "title", "ax_tree", "box", "resolve",
    "call_function", "focus", "input", "locator", "set_files", "page_op",
    "wait_timeout", "load_state", "new_page", "new_cdp_session" }

ExcText(point) ==
  CASE point = "launch" -> "BrowserType.launch_persistent_context: Failed to launch"
    [] point = "goto_error" -> "Page.goto: net::ERR_NAME_NOT_RESOLVED"
    [] point = "input" -> "CDPSession.send: Target closed"
    [] point = "call_function" -> "CDPSession.send: Cannot find context with specified id"
    [] point = "locator" -> "Locator.click: Timeout 5000ms exceeded."
    [] point = "set_files" -> "CDPSession.send: Node is not a file input element"
    [] point = "title" -> "Page.title: Target page, context or browser has been closed"
    [] point = "page_op" -> "Target page, context or browser has been closed"
    [] point = "new_page" -> "BrowserContext.new_page: Target closed"
    [] point = "new_cdp_session" -> "BrowserContext.new_cdp_session: Target closed"
    [] OTHER -> "Error"

(***************************************************************************)
(* The state one call works on.  s: the fields of BrowserSession; pages:   *)
(* context.pages as page ids; doc: the document each page shows; closed:   *)
(* the pages for which is_closed() holds; reg: _REGISTRY; held: the        *)
(* registry a page had before its latest snapshot; ops: the browser calls  *)
(* made so far in the call; exc: the exception in flight ("": none).       *)
(***************************************************************************)
NoSession ==
  [ _playwright |-> None, _browser |-> None, _context |-> None,
    _page |-> None, _cdp |-> None ]

Op(m, name) == [ m EXCEPT !.ops = Append(@, name) ]
Raise(m, e) == [ m EXCEPT !.exc = e ]
Raised(m) == m.exc # ""
\* the next step of a coroutine: skipped while an exception is in flight
Then(m, Step(_)) == Strict(LAMBDA m1 : IF Raised(m1) THEN m1 ELSE Step(m1), m)

\* ids a new page object can get: not the id of an object still referenced;
\* among the ids no registry was stored under, the lowest stands for all
FreeIds(pgs, s) == PageIds \ (Range(pgs) \cup { s._page })
IdCandidates(pgs, s, reg) ==
  (FreeIds(pgs, s) \cap DOMAIN reg)
  \cup { q \in FreeIds(pgs, s) \ DOMAIN reg :
           \A r \in FreeIds(pgs, s) \ DOMAIN reg : q <= r }
Nth(S, k) == CHOOSE x \in S : Cardinality({ y \in S : y < x }) = k - 1

\* a new page object with the id the run picks for it (picks: which of the
\* candidates each new page of the call gets); bad: no such candidate, or
\* more tabs than MaxTabs.  first: the page is the first of a new context.
NewPage(m, first) ==
  LET cands == IdCandidates(m.pages, m.s, m.reg)
      pid == Nth(cands, Head(m.picks))
  IN IF m.picks = << >> \/ Head(m.picks) > Cardinality(cands)
        \/ (~first /\ Len(m.pages) >= MaxTabs)
     THEN [ m EXCEPT !.bad = TRUE, !.new_page = None ]
     ELSE [ m EXCEPT !.picks = Tail(@), !.new_page = pid,
                     !.pages = IF first THEN << pid >> ELSE Append(@, pid),
                     !.doc[pid] = "blank",
                     !.closed = @ \ { pid } ]

(***************************************************************************)
(* BrowserSession                                                          *)
(***************************************************************************)
\* playwright.stop() ends the browser the driver started
DriverStop(m) ==
  [ m EXCEPT !.closed = @ \cup Range(m.pages),
             !.ops = Append(@, "playwright.stop") ]

_launch_context(m) ==
  Strict(LAMBDA p :
           IF p.bad THEN p
           ELSE [ p EXCEPT !.s._context = p.launches,
                           !.s._page = p.new_page,
                           !.s._cdp = p.new_page,
                           !.s._browser = None,
                           !.ops = @ \o << "new_cdp_session", "Accessibility.enable" >> ],
         NewPage(Op(m, "launch_persistent_context"), TRUE))

_launch(m) ==
  LET stopped == IF m.s._playwright # None THEN DriverStop(m) ELSE m
      started == [ stopped EXCEPT !.s._playwright = stopped.launches + 1,
                                  !.launches = @ + 1,
                                  !.ops = Append(@, "async_playwright.start") ]
  IN IF "launch" \in m.faults
     THEN Raise(Op(started, "launch_persistent_context"), ExcText("launch"))
     ELSE _launch_context(started)

\* the liveness probe of get_page: it fails on a session that is None or
\* attached to a closed page
ProbeFails(m) ==
  \/ "probe" \in m.faults
  \/ m.s._cdp = None
  \/ m.s._cdp \in m.closed

\* get_page_probe relaunching whenever the probe fails
get_page_probe_relaunching(m) ==
  IF ~ProbeFails(m) THEN Op(m, "Accessibility.getFullAXTree")
  ELSE _launch(Op(Op(m, "Accessibility.getFullAXTree"), "new_cdp_session"))

get_page_probe(m) ==
  IF ~ProbeFails(m) THEN Op(m, "Accessibility.getFullAXTree")
  ELSE IF "reattach" \in m.faults \/ m.s._page \in m.closed
       THEN _launch(Op(Op(m, "Accessibility.getFullAXTree"), "new_cdp_session"))
       ELSE [ m EXCEPT !.s._cdp = m.s._page,
                       !.ops = @ \o << "Accessibility.getFullAXTree",
                                       "new_cdp_session", "Accessibility.enable" >> ]

\* get_page that launches only when there is no page
get_page_unchecked(m) ==
  Then(IF m.s._page = None THEN _launch(m) ELSE m, get_page_probe)

get_page(m) ==
  Then(IF m.s._page = None \/ m.s._page \in m.closed THEN _launch(m) ELSE m,
       get_page_probe)

\* close_all in which a step that raises is not guarded: the exception
\* leaves close_all before the later steps and the reset of the fields
close_all_unguarded(m) ==
  LET detached == IF m.s._cdp # None THEN Op(m, "cdp.detach") ELSE m
      ctx_closed ==
        IF m.s._context = None THEN detached
        ELSE [ detached EXCEPT !.closed = @ \cup Range(m.pages), !.pages = << >>,
                               !.ops = Append(@, "context.close") ]
      stopped ==
        IF m.s._playwright = None THEN ctx_closed ELSE DriverStop(ctx_closed)
  IN IF m.s._cdp # None /\ "detach" \in m.faults
     THEN Raise(detached, ExcText("detach"))
     ELSE IF m.s._context # None /\ "context_close" \in m.faults
     THEN Raise(Op(detached, "context.close"), ExcText("context_close"))
     ELSE IF m.s._playwright # None /\ "stop" \in m.faults
     THEN Raise(Op(ctx_closed, "playwright.stop"), ExcText("stop"))
     ELSE [ stopped EXCEPT !.s = NoSession, !.pages = << >> ]

\* each step is in a try/except of its own: a step that raises (detach,
\* context_close, stop in faults) has no effect and the next one runs
close_all(m) ==
  LET detached == IF m.s._cdp # None THEN Op(m, "cdp.detach") ELSE m
      ctx_closed ==
        IF m.s._context = None THEN detached
        ELSE IF "context_close" \in m.faults THEN Op(detached, "context.close")
        ELSE [ detached EXCEPT !.closed = @ \cup Range(m.pages), !.pages = << >>,
                               !.ops = Append(@, "context.close") ]
      browser_closed ==
        IF m.s._browser = None THEN ctx_closed ELSE Op(ctx_closed, "browser.close")
      stopped ==
        IF m.s._playwright = None THEN browser_closed
        ELSE IF "stop" \in m.faults THEN Op(browser_closed, "playwright.stop")
        ELSE DriverStop(browser_closed)
  IN [ stopped EXCEPT !.s = NoSession, !.pages = << >> ]

(***************************************************************************)
(* _take_snapshot(page, cdp) on the state of a call: page p, protocol      *)
(* session attached to page c                                              *)
(***************************************************************************)
Alive(m, c) == c # None /\ c \notin m.closed
IndexOf(seq, x) == IF x \in Range(seq) THEN CHOOSE i \in DOMAIN seq : seq[i] = x ELSE 0

\* what _take_snapshot reads: url, title and frames of the page, the tree
\* over the protocol session, the tab list of the page's context
PageViewOf(m, p, c) ==
  LET d == Docs[m.doc[p]]
  IN [ url |-> d.url, title |-> d.title,
       title_fails |-> "title" \in m.faults \/ p \in m.closed,
       ax_fails |-> "ax_tree" \in m.faults \/ ~Alive(m, c),
       nodes |-> IF Alive(m, c) THEN Docs[m.doc[c]].nodes ELSE << >>,
       frames |-> IF p \in m.closed THEN << MainFrame(d.url) >> ELSE d.frames,
       tabs |-> [ i \in DOMAIN m.pages |-> Docs[m.doc[m.pages[i]]].url ],
       tab_index |-> IndexOf(m.pages, p) ]

SnapshotOps(pv) ==
  << "page.title", "Accessibility.getFullAXTree" >>
  \o [ i \in 1..(Len(pv.frames) - 1) |-> "frame.evaluate" ]

TakeSnapshot(m, p, c) ==
  Strict(LAMBDA pv :
    Strict(LAMBDA out :
             [ m EXCEPT !.snap_whole = ~pv.ax_fails /\ c = p,
                        !.held = [ pid |-> p,
                                   registry |-> IF p \in DOMAIN m.reg THEN m.reg[p]
                                                ELSE EmptyRegistry ],
                        !.reg = Put(m.reg, p, out.registry),
                        !.snap = << out.text >>,
                        !.snap_page = p,
                        !.before_snap = m.ops,
                        !.ops = @ \o SnapshotOps(pv) ],
           _take_snapshot(pv)),
    PageViewOf(m, p, c))

\* f"{result}\n\n{snap}" and its like
WithSnapshot(m, p, c, prefix) ==
  Strict(LAMBDA s : [ s EXCEPT !.result = prefix \o "\n\n" \o s.snap[1] ],
         TakeSnapshot(m, p, c))

(***************************************************************************)
(* Waits                                                                   *)
(***************************************************************************)
\* page.wait_for_load_state: PlaywrightTimeout under wait_timeout, another
\* error on a closed page or under load_state (the page closes or crashes
\* during the wait)
LoadState(m, p, state) ==
  IF p \in m.closed \/ "load_state" \in m.faults THEN Raise(Op(m, "wait_for_load_state:" \o state), ExcText("page_op"))
  ELSE Op(m, "wait_for_load_state:" \o state)

_smart_wait(m, p) ==
  Then(Then(LoadState(m, p, "networkidle"),
            LAMBDA w : IF "wait_timeout" \in m.faults
                       THEN LoadState(w, p, "domcontentloaded") ELSE w),
       LAMBDA w : Op(w, "sleep"))

_wait_for_navigation_settle(m, p) ==
  Then(LoadState(m, p, "domcontentloaded"), LAMBDA w : _smart_wait(w, p))

(***************************************************************************)
(* CDP interaction primitives                                              *)
(***************************************************************************)
NodeLive(m, c, backend_node_id) ==
  Alive(m, c) /\ backend_node_id \in LiveNodes(m.doc[c])

\* cdp.send of a command that raises when point fails or the target is gone
Send(m, c, method, point) ==
  IF point \in m.faults \/ ~Alive(m, c)
  THEN Raise(Op(m, method), ExcText(point))
  ELSE Op(m, method)

\* both sends are guarded by try/except; ok: a box was returned
_get_box(m, c, backend_node_id) ==
  [ m EXCEPT !.ops = @ \o << "DOM.scrollIntoViewIfNeeded", "DOM.getBoxModel" >>,
             !.ok = "box" \notin m.faults /\ NodeLive(m, c, backend_node_id) ]

\* the element under the pointer receives the click when the button is released
_cdp_click(m, c, backend_node_id) ==
  Then(Send(m, c, "Input.dispatchMouseEvent", "input"),
       LAMBDA w : [ w EXCEPT !.ops = @ \o << "Input.dispatchMouseEvent",
                                             "Input.dispatchMouseEvent" >>,
                             !.doc[c] = ClickEffect(@, backend_node_id) ])

_cdp_focus(m, c, backend_node_id) ==
  [ m EXCEPT !.ops = Append(@, "DOM.focus"),
             !.ok = "focus" \notin m.faults /\ NodeLive(m, c, backend_node_id) ]

_cdp_type(m, c) == Send(m, c, "Input.insertText", "input")

_cdp_key(m, c, key) ==
  Then(Send(m, c, "Input.dispatchKeyEvent:" \o key, "input"),
       LAMBDA w : Op(w, "Input.dispatchKeyEvent:" \o key))

\* ok: an object id was returned
_resolve_node(m, c, backend_node_id) ==
  [ m EXCEPT !.ops = Append(@, "DOM.resolveNode"),
             !.ok = "resolve" \notin m.faults /\ NodeLive(m, c, backend_node_id) ]

_js_click(m, c, backend_node_id) ==
  Strict(LAMBDA r :
           IF ~r.ok THEN r
           ELSE IF "call_function" \in m.faults
                THEN [ r EXCEPT !.ops = Append(@, "Runtime.callFunctionOn"), !.ok = FALSE ]
                ELSE [ r EXCEPT !.ops = Append(@, "Runtime.callFunctionOn"), !.ok = TRUE,
                                !.doc[c] = ClickEffect(@, backend_node_id) ],
         _resolve_node(m, c, backend_node_id))

\* frame.locator(selector).first and one operation on it: raises when the
\* page has no frame of that index or the frame no element for the selector
FrameHas(m, p, elem) ==
  /\ p \notin m.closed
  /\ elem.frame_index + 1 <= Len(Docs[m.doc[p]].frames)
  /\ \E i \in DOMAIN Docs[m.doc[p]].frames[elem.frame_index + 1].dom_elements :
       Docs[m.doc[p]].frames[elem.frame_index + 1].dom_elements[i].selector = elem.selector

Locator(m, p, elem, operation) ==
  IF "locator" \in m.faults \/ ~FrameHas(m, p, elem)
  THEN Raise(Op(m, "locator." \o operation), ExcText("locator"))
  ELSE Op(m, "locator." \o operation)

(***************************************************************************)
(* High-level actions.  Each returns its message in result; acted holds    *)
(* the registry element an input was delivered to.                         *)
(***************************************************************************)
\* a lookup that falls back to the page's first element
_get_elem_or_first(m, p, ref) ==
  IF p \in DOMAIN m.reg /\ ref \in DOMAIN m.reg[p] THEN << m.reg[p][ref] >>
  ELSE IF p \in DOMAIN m.reg /\ DOMAIN m.reg[p] # {}
       THEN << m.reg[p][CHOOSE r \in DOMAIN m.reg[p] : \A q \in DOMAIN m.reg[p] : r <= q] >>
  ELSE << >>

_get_elem(m, p, ref) ==
  IF p \in DOMAIN m.reg /\ ref \in DOMAIN m.reg[p] THEN << m.reg[p][ref] >> ELSE << >>

Return(m, text) == [ m EXCEPT !.result = text ]
Returned(m) == m.result # ""
Acted(m, elem) == [ m EXCEPT !.acted = << elem >> ]
\* except Exception as e: return handler(e)
Except(m, Handler(_, _)) ==
  Strict(LAMBDA t : IF Raised(t) THEN Handler([ t EXCEPT !.exc = "" ], t.exc) ELSE t, m)
\* the rest of a function body: skipped after a return or a raise
Next_(m, Step(_)) ==
  Strict(LAMBDA t : IF Raised(t) \/ Returned(t) THEN t ELSE Step(t), m)

IsFrameElem(elem) == elem.frame_index > 0 /\ elem.selector # ""
RefText(ref) == "[" \o ToString(ref) \o "]"
ElemText(elem) == elem.role \o ": " \o Repr(elem.name)

\* main frame: CDP click with fallbacks; method "" after the error return
_do_click_main(m, c, ref, elem) ==
  Strict(LAMBDA b :
    IF b.ok
    THEN Then(_cdp_click(b, c, elem.backend_node_id),
              LAMBDA w : [ w EXCEPT !.method = "cdp-click" ])
    ELSE Strict(LAMBDA j :
           IF j.ok THEN [ j EXCEPT !.method = "js-click" ]
           ELSE Strict(LAMBDA f :
                  IF f.ok
                  THEN Then(_cdp_key(f, c, "Enter"),
                            LAMBDA w : [ w EXCEPT !.method = "focus-enter",
                                                  !.doc[c] = ClickEffect(@, elem.backend_node_id) ])
                  ELSE Return(f, "Error: could not click " \o RefText(ref) \o " ("
                                   \o elem.role \o ": " \o elem.name \o ")"),
                _cdp_focus(j, c, elem.backend_node_id)),
         _js_click(b, c, elem.backend_node_id)),
    _get_box(m, c, elem.backend_node_id))

\* a variant that lets the locator's exception leave _do_click
_do_click_frame_unguarded(m, p, ref, elem) ==
  Then(Then(Locator(m, p, elem, "scroll_into_view_if_needed"),
            LAMBDA w : Locator(w, p, elem, "click")),
       LAMBDA w : [ w EXCEPT !.method = "frame-click" ])

_do_click_frame(m, p, ref, elem) ==
  Except(Then(Then(Locator(m, p, elem, "scroll_into_view_if_needed"),
                   LAMBDA w : Locator(w, p, elem, "click")),
              LAMBDA w : [ w EXCEPT !.method = "frame-click" ]),
         LAMBDA t, e : Return(t, "Error: could not click " \o RefText(ref) \o " in iframe ("
                                   \o elem.role \o ": " \o elem.name \o "): " \o e))

\* wait for potential navigation or JS update
_do_click_settle(m, p, url_before) ==
  IF Docs[m.doc[p]].url # url_before
  THEN _wait_for_navigation_settle(Op(m, "sleep"), p)
  ELSE _smart_wait(Op(m, "sleep"), p)

_do_click(m, p, c, ref) ==
  LET found == _get_elem(m, p, ref)
      elem == found[1]
      url_before == Docs[m.doc[p]].url
  IN IF found = << >>
     THEN Return(m, "Error: ref " \o RefText(ref) \o " not found. Run snapshot to refresh.")
     ELSE Next_(Next_(IF IsFrameElem(elem) THEN _do_click_frame(m, p, ref, elem)
                      ELSE _do_click_main(m, c, ref, elem),
                      LAMBDA w : _do_click_settle(Acted(w, elem), p, url_before)),
                LAMBDA w : Return(w, "Clicked " \o RefText(ref) \o " " \o ElemText(elem)
                                       \o " (" \o w.method \o ")"))

\* a variant that goes on to the input although the focus failed
_focus_for_input_unchecked(m, c, ref, elem, detail) ==
  Strict(LAMBDA b :
    IF b.ok THEN Then(_cdp_click(b, c, elem.backend_node_id), LAMBDA w : Op(w, "sleep"))
    ELSE Op(_cdp_focus(b, c, elem.backend_node_id), "sleep"),
    _get_box(m, c, elem.backend_node_id))

\* click the element, or focus it when it has no box
_focus_for_input(m, c, ref, elem, detail) ==
  Strict(LAMBDA b :
    IF b.ok THEN Then(_cdp_click(b, c, elem.backend_node_id), LAMBDA w : Op(w, "sleep"))
    ELSE Strict(LAMBDA f :
           IF f.ok THEN Op(f, "sleep")
           ELSE Return(f, "Error: could not focus " \o RefText(ref) \o detail),
         _cdp_focus(b, c, elem.backend_node_id)),
    _get_box(m, c, elem.backend_node_id))

_do_fill(m, p, c, ref, text) ==
  LET found == _get_elem(m, p, ref)
      elem == found[1]
      done == "Filled " \o RefText(ref) \o " " \o ElemText(elem) \o " with " \o Repr(text)
  IN IF found = << >>
     THEN Return(m, "Error: ref " \o RefText(ref) \o " not found. Run snapshot to refresh.")
     ELSE IF IsFrameElem(elem)
     THEN Except(Then(Then(Locator(m, p, elem, "click"),
                           LAMBDA w : Locator(Op(w, "sleep"), p, elem, "fill")),
                      LAMBDA w : Return(Acted(Op(w, "sleep"), elem), done)),
                 LAMBDA t, e : Return(t, "Error: could not fill " \o RefText(ref)
                                           \o " in iframe: " \o e))
     ELSE Next_(Next_(Next_(Next_(
            _focus_for_input(m, c, ref, elem, " (" \o elem.role \o ": " \o elem.name \o ")"),
            LAMBDA w : _cdp_key(w, c, "Control+a")),
            LAMBDA w : _cdp_key(Op(w, "sleep"), c, "Delete")),
            LAMBDA w : _cdp_type(Op(w, "sleep"), c)),
            LAMBDA w : Return(Acted(Op(w, "sleep"), elem), done))

_do_type(m, p, c, ref, text) ==
  LET found == _get_elem(m, p, ref)
      elem == found[1]
      done == "Typed " \o Repr(text) \o " into " \o RefText(ref) \o " " \o ElemText(elem)
  IN IF found = << >>
     THEN Return(m, "Error: ref " \o RefText(ref) \o " not found. Run snapshot to refresh.")
     ELSE IF IsFrameElem(elem)
     THEN Except(Then(Then(Locator(m, p, elem, "click"),
                           LAMBDA w : Locator(Op(w, "sleep"), p, elem, "type")),
                      LAMBDA w : Return(Acted(Op(w, "sleep"), elem), done)),
                 LAMBDA t, e : Return(t, "Error: could not type into " \o RefText(ref)
                                           \o " in iframe: " \o e))
     ELSE Next_(Next_(
            _focus_for_input(m, c, ref, elem, ""),
            LAMBDA w : _cdp_type(w, c)),
            LAMBDA w : Return(Acted(Op(w, "sleep"), elem), done))

_do_hover(m, p, c, ref) ==
  LET found == _get_elem(m, p, ref)
      elem == found[1]
  IN IF found = << >>
     THEN Return(m, "Error: ref " \o RefText(ref) \o " not found.")
     ELSE IF IsFrameElem(elem)
     THEN Except(Then(Locator(m, p, elem, "hover"),
                      LAMBDA w : Return(Acted(w, elem),
                                        "Hovered over " \o RefText(ref) \o " " \o ElemText(elem))),
                 LAMBDA t, e : Return(t, "Error: could not hover " \o RefText(ref)
                                           \o " in iframe: " \o e))
     ELSE Strict(LAMBDA b :
            IF ~b.ok
            THEN Return(b, "Error: could not get coordinates for " \o RefText(ref))
            ELSE Then(Send(b, c, "Input.dispatchMouseEvent", "input"),
                      LAMBDA w : Return(Acted(Op(w, "sleep"), elem),
                                        "Hovering over " \o RefText(ref) \o " " \o ElemText(elem))),
            _get_box(m, c, elem.backend_node_id))

\* the in-page function given value: this.value = value, then a change
\* event.  A select takes the value only when an option has it and is left
\* without a selection otherwise; selected: the value the element has after
\* the assignment, when a change event was dispatched
SetValue(w, options, value) ==
  [ w EXCEPT !.selected =
      << IF options = << >> \/ \E i \in DOMAIN options : options[i].value = value
         THEN value ELSE "" >> ]

\* the in-page function given text: the first option whose trimmed text is
\* the text gives the value and a change event is dispatched; with no such
\* option (or no options at all) nothing is set and nothing dispatched
SetByText(w, options, text) ==
  LET hits == { i \in DOMAIN options : Strip(options[i].text) = text }
      first == CHOOSE i \in hits : \A j \in hits : i <= j
  IN IF hits = {} THEN w ELSE [ w EXCEPT !.selected = << options[first].value >> ]

\* value, text: "" for None
_do_select_option(m, p, c, ref, value, text) ==
  LET found == _get_elem(m, p, ref)
      elem == found[1]
      options == Options(m.doc[c], elem.backend_node_id)
  IN IF found = << >>
     THEN Return(m, "Error: ref " \o RefText(ref) \o " not found.")
     ELSE Strict(LAMBDA r :
            IF ~r.ok THEN Return(r, "Error: could not resolve " \o RefText(ref))
            ELSE IF value # "" \/ text # ""
            THEN Except(Then(Send(r, c, "Runtime.callFunctionOn", "call_function"),
                             LAMBDA w :
                               Return(Acted(IF value # "" THEN SetValue(w, options, value)
                                            ELSE SetByText(w, options, text), elem),
                                      "Selected option in " \o RefText(ref))),
                        LAMBDA t, e : Return(t, "select_option error: " \o e))
            ELSE Return(r, "Error: select_option needs value=... or text=..."),
            _resolve_node(m, c, elem.backend_node_id))

\* os.path.isfile
IsFile(filepath) == filepath = "/tmp/cv.pdf"

_do_upload(m, p, c, ref, filepath) ==
  LET found == _get_elem(m, p, ref)
      elem == found[1]
  IN IF found = << >>
     THEN Return(m, "Error: ref " \o RefText(ref) \o " not found.")
     ELSE IF ~IsFile(filepath)
     THEN Return(m, "Error: file not found: " \o filepath)
     ELSE Except(Then(Send(m, c, "DOM.setFileInputFiles", "set_files"),
                      LAMBDA w : Return(Acted(Op(w, "sleep"), elem),
                                        "Uploaded " \o filepath \o " to " \o RefText(ref))),
                 LAMBDA t, e : Return(t, "upload error: " \o e))

(***************************************************************************)
(* _get_page_text                                                          *)
(***************************************************************************)
page_text_line(role, name) ==
  CASE role = "heading" -> "## " \o name
    [] role = "listitem" -> "* " \o name
    [] role = "link" -> "[" \o name \o "]"
    [] role \in { "statictext", "text", "paragraph", "blockquote", "cell", "gridcell",
                  "caption", "definition", "contentinfo", "article", "main", "region",
                  "complementary", "group", "section" } -> name
    [] role = "row" -> "| " \o name
    [] role \in { "img", "image" } -> "[Image: " \o name \o "]"
    [] role = "label" -> name \o ":"
    [] role \in { "status", "alert", "log" } -> "! " \o name
    [] role = "treeitem" -> "  > " \o name
    [] role = "tab" -> "[Tab: " \o name \o "]"
    [] role \in { "dialog", "alertdialog" } -> "DIALOG: " \o name
    [] role = "button" /\ Len(name) > 10 -> "[" \o name \o "]"
    [] role \in { "generic", "none", "presentation" } /\ Len(name) > 20 -> name
    [] OTHER -> ""

page_text_node(acc, node) ==
  LET name == _ax_name(node)
      key == Slice(Strip(name), 100)
      line == page_text_line(_ax_role(node), name)
      cut == IF Len(line) > 300 THEN Slice(line, 297) \o "..." ELSE line
  IN IF acc.total >= 4000 \/ _ax_ignored(node) THEN acc
     ELSE IF name = "" \/ Len(Strip(name)) < 3 THEN acc
     ELSE IF key \in acc.seen_texts THEN acc
     ELSE IF line = "" THEN [ acc EXCEPT !.seen_texts = @ \cup { key } ]
     ELSE [ acc EXCEPT !.seen_texts = @ \cup { key },
                       !.ax_lines = Append(@, cut), !.total = @ + Len(cut) ]

\* the text of every frame: the main frame's innerText; the child frames of
\* the documents here render no text
_extract_frames_text(d, page_closed, limit) ==
  LET text == IF page_closed THEN "" ELSE Slice(d.inner_text, 4000)
  IN IF text # "" /\ Len(Strip(text)) > 20 THEN Slice(Strip(text), limit) ELSE ""

_get_page_text(m, p, c) ==
  LET pv == PageViewOf(m, p, c)
      scan == FoldSeq(page_text_node, _get_ax_tree(pv),
                      [ ax_lines |-> << >>, total |-> 0, seen_texts |-> {} ])
      ax_content == IF scan.ax_lines # << >> THEN JoinLines(scan.ax_lines) ELSE ""
      js_content == _extract_frames_text(Docs[m.doc[p]], p \in m.closed, 4000)
      content ==
        IF ax_content # "" /\ js_content # ""
        THEN Slice(ax_content \o "\n\n-- Additional Page Content --\n" \o js_content, 6000)
        ELSE IF js_content # "" THEN Slice(js_content, 6000)
        ELSE IF ax_content # "" THEN ax_content
        ELSE "(empty page - no content detected)"
  IN [ m EXCEPT !.text = content,
                !.ops = @ \o << "Accessibility.getFullAXTree" >>
                          \o [ i \in 1..Len(pv.frames) |-> "frame.evaluate" ] ]

\* eleven selectors tried, every failure swallowed; the documents here show
\* no consent banner
_dismiss_banners(m) == [ m EXCEPT !.ops = @ \o [ i \in 1..11 |-> "locator.is_visible" ] ]

(***************************************************************************)
(* _dispatch.  kw: the keyword arguments that are not None                 *)
(***************************************************************************)
Has(kw, k) == k \in DOMAIN kw
Str(kw, k) == IF k \in DOMAIN kw THEN kw[k] ELSE ""

\* page.goto / go_back / ...: a page operation that raises on a closed page
PageOp(m, p, name) ==
  IF "page_op" \in m.faults \/ p \in m.closed
  THEN Raise(Op(m, name), ExcText("page_op"))
  ELSE Op(m, name)

\* page.goto(url): "timeout" in exc stands for PlaywrightTimeout
Goto(m, p, url) ==
  IF p \in m.closed THEN Raise(Op(m, "page.goto"), ExcText("page_op"))
  ELSE IF DocOfUrl(url) = "" THEN Raise(Op(m, "page.goto"), ExcText("goto_error"))
  ELSE IF "goto_timeout" \in m.faults
       THEN Raise([ Op(m, "page.goto") EXCEPT !.doc[p] = DocOfUrl(url) ], "timeout")
  ELSE [ Op(m, "page.goto") EXCEPT !.doc[p] = DocOfUrl(url) ]

dispatch_navigate(m, p, c, kw) ==
  LET url == Str(kw, "url")
      tried ==
        Except(Then(Then(Goto(m, p, url), LAMBDA w : _smart_wait(w, p)), _dismiss_banners),
               LAMBDA t, e : IF e = "timeout" THEN t
                             ELSE Return(t, "Navigation error: " \o e))
  IN IF url = "" THEN Return(m, "Error: navigate needs url=...")
     ELSE Next_(tried, LAMBDA w : WithSnapshot(w, p, c, "Navigated to " \o url))

dispatch_get_text(m, p, c) ==
  IF "title" \in m.faults \/ p \in m.closed
  THEN Raise(Op(m, "page.title"), ExcText("title"))
  ELSE Strict(LAMBDA t :
                Return(t, "URL: " \o Docs[m.doc[p]].url \o "\nTitle: "
                            \o Docs[m.doc[p]].title \o "\n\n" \o t.text),
              _get_page_text(Op(m, "page.title"), p, c))

\* result, then the snapshot appended to it
AppendSnapshot(m, p, c) == Then(m, LAMBDA w : WithSnapshot(w, p, c, w.result))

dispatch_click(m, p, c, kw) ==
  IF ~Has(kw, "ref") THEN Return(m, "Error: click needs ref=N")
  ELSE AppendSnapshot(_do_click(m, p, c, kw.ref), p, c)

dispatch_fill(m, p, c, kw) ==
  IF ~Has(kw, "ref") THEN Return(m, "Error: fill needs ref=N")
  ELSE IF ~Has(kw, "text") THEN Return(m, "Error: fill needs text=...")
  ELSE AppendSnapshot(_do_fill(m, p, c, kw.ref, kw.text), p, c)

dispatch_type(m, p, c, kw) ==
  IF ~Has(kw, "ref") THEN Return(m, "Error: type needs ref=N")
  ELSE IF ~Has(kw, "text") THEN Return(m, "Error: type needs text=...")
  ELSE AppendSnapshot(_do_type(m, p, c, kw.ref, kw.text), p, c)

dispatch_press(m, p, c, kw) ==
  IF Str(kw, "key") = "" THEN Return(m, "Error: press needs key=...")
  ELSE Then(_cdp_key(m, c, kw.key),
            LAMBDA w : WithSnapshot(Op(w, "sleep"), p, c, "Pressed " \o kw.key))

dispatch_hover(m, p, c, kw) ==
  IF ~Has(kw, "ref") THEN Return(m, "Error: hover needs ref=N")
  ELSE AppendSnapshot(_do_hover(m, p, c, kw.ref), p, c)

dispatch_select_option(m, p, c, kw) ==
  IF ~Has(kw, "ref") THEN Return(m, "Error: select_option needs ref=N")
  ELSE AppendSnapshot(_do_select_option(m, p, c, kw.ref, Str(kw, "value"), Str(kw, "text")),
                      p, c)

dispatch_upload_file(m, p, c, kw) ==
  IF ~Has(kw, "ref") THEN Return(m, "Error: upload_file needs ref=N")
  ELSE IF Str(kw, "filepath") = "" THEN Return(m, "Error: upload_file needs filepath=...")
  ELSE AppendSnapshot(_do_upload(m, p, c, kw.ref, kw.filepath), p, c)

\* direction and amount carry browser_act's defaults ("down", 600)
dispatch_scroll(m, p, c, kw) ==
  Then(PageOp(m, p, "mouse.wheel"),
       LAMBDA w : WithSnapshot(Op(w, "sleep"), p, c,
                               "Scrolled " \o kw.direction \o " " \o ToString(kw.amount) \o "px"))

dispatch_wait(m, p, c, kw) ==
  WithSnapshot(Op(m, "sleep"), p, c, "Waited " \o ToString(kw.duration) \o "s")

dispatch_wait_for(m, p, c, kw) ==
  LET what == IF Str(kw, "selector") # "" THEN "page.wait_for_selector"
              ELSE IF Str(kw, "url") # "" THEN "page.wait_for_url"
              ELSE "wait_for_load_state:networkidle"
  IN Then(PageOp(m, p, what), LAMBDA w : WithSnapshot(w, p, c, "Wait complete"))

ShotPath == "/app/brain/screenshots/shot_20260101_120000.png"

dispatch_screenshot(m, p) ==
  Then(PageOp(m, p, "page.screenshot"), LAMBDA w : Return(w, "Screenshot saved: " \o ShotPath))

\* the page's history is not kept here: back shows the blank document every
\* page starts with, forward finds no entry
dispatch_back(m, p, c) ==
  Then(Then(PageOp(m, p, "page.go_back"),
            LAMBDA w : _smart_wait([ w EXCEPT !.doc[p] = "blank" ], p)),
       LAMBDA w : WithSnapshot(w, p, c, "Went back"))

dispatch_forward(m, p, c) ==
  Then(Then(PageOp(m, p, "page.go_forward"), LAMBDA w : _smart_wait(w, p)),
       LAMBDA w : WithSnapshot(w, p, c, "Went forward"))

\* ctx.new_cdp_session(page) and Accessibility.enable on it
Attach(m, p) ==
  IF "new_cdp_session" \in m.faults \/ p \in m.closed
  THEN Raise(Op(m, "new_cdp_session"), ExcText("new_cdp_session"))
  ELSE [ m EXCEPT !.s._cdp = p,
                  !.ops = @ \o << "new_cdp_session", "Accessibility.enable" >> ]

dispatch_new_tab_open(m) ==
  IF "new_page" \in m.faults THEN Raise(Op(m, "context.new_page"), ExcText("new_page"))
  ELSE Strict(LAMBDA n : IF n.bad THEN n ELSE [ n EXCEPT !.s._page = n.new_page ],
              NewPage(Op(m, "context.new_page"), FALSE))

dispatch_new_tab(m, kw) ==
  LET url == Str(kw, "url")
      loaded(w) ==
        Except(Then(Goto(w, w.s._page, url), LAMBDA g : _smart_wait(g, w.s._page)),
               LAMBDA t, e : IF e = "timeout" THEN t ELSE Raise(t, e))
  IN IF url = "" THEN Return(m, "Error: new_tab needs url=...")
     ELSE IF m.s._context = None THEN Return(m, "Error: no browser context")
     ELSE Then(Then(Then(dispatch_new_tab_open(m),
                         LAMBDA w : IF w.bad THEN w ELSE Attach(w, w.s._page)),
                    loaded),
               LAMBDA w : IF w.bad THEN w
                          ELSE WithSnapshot(w, w.s._page, w.s._cdp, "Opened new tab: " \o url))

dispatch_switch_tab(m, kw) ==
  LET idx == IF Has(kw, "index") THEN kw.index ELSE 0
  IN IF m.s._context = None THEN Return(m, "Error: no browser context")
     ELSE IF idx < 0 \/ idx >= Len(m.pages)
     THEN Return(m, "Error: tab index " \o ToString(idx) \o " out of range (0-"
                      \o ToString(Len(m.pages) - 1) \o ")")
     ELSE Then(Attach([ m EXCEPT !.s._page = m.pages[idx + 1] ], m.pages[idx + 1]),
               LAMBDA w : WithSnapshot(w, m.pages[idx + 1], w.s._cdp,
                                       "Switched to tab [" \o ToString(idx) \o "]"))

dispatch_close_tab_page(m, p) ==
  IF "page_op" \in m.faults THEN Raise(Op(m, "page.close"), ExcText("page_op"))
  ELSE [ m EXCEPT !.ops = Append(@, "page.close"),
                  !.closed = @ \cup { p },
                  !.pages = SelectSeq(@, LAMBDA q : q # p) ]

dispatch_close_tab(m, p) ==
  IF m.s._context = None THEN Return(m, "Error: no browser context")
  ELSE Then(dispatch_close_tab_page(m, p),
            LAMBDA w :
              IF w.pages = << >> THEN Return(w, "Tab closed. No remaining tabs.")
              ELSE Then(Attach([ w EXCEPT !.s._page = w.pages[Len(w.pages)] ],
                               w.pages[Len(w.pages)]),
                        LAMBDA a : WithSnapshot(a, w.pages[Len(w.pages)], a.s._cdp,
                                                "Tab closed")))

ValidActions ==
  "navigate, snapshot, get_text, click, fill, type, press, hover, select_option, upload_file, scroll, wait, wait_for, screenshot, back, forward, new_tab, switch_tab, close_tab, close"

_dispatch(m, action, p, c, kw) ==
  CASE action = "navigate" -> dispatch_navigate(m, p, c, kw)
    [] action = "snapshot" ->
         Strict(LAMBDA s : Return(s, s.snap[1]), TakeSnapshot(m, p, c))
    [] action = "get_text" -> dispatch_get_text(m, p, c)
    [] action = "click" -> dispatch_click(m, p, c, kw)
    [] action = "fill" -> dispatch_fill(m, p, c, kw)
    [] action = "type" -> dispatch_type(m, p, c, kw)
    [] action = "press" -> dispatch_press(m, p, c, kw)
    [] action = "hover" -> dispatch_hover(m, p, c, kw)
    [] action = "select_option" -> dispatch_select_option(m, p, c, kw)
    [] action = "upload_file" -> dispatch_upload_file(m, p, c, kw)
    [] action = "scroll" -> dispatch_scroll(m, p, c, kw)
    [] action = "wait" -> dispatch_wait(m, p, c, kw)
    [] action = "wait_for" -> dispatch_wait_for(m, p, c, kw)
    [] action = "screenshot" -> dispatch_screenshot(m, p)
    [] action = "back" -> dispatch_back(m, p, c)
    [] action = "forward" -> dispatch_forward(m, p, c)
    [] action = "new_tab" -> dispatch_new_tab(m, kw)
    [] action = "switch_tab" -> dispatch_switch_tab(m, kw)
    [] action = "close_tab" -> dispatch_close_tab(m, p)
    [] OTHER -> Return(m, "Unknown action: '" \o action \o "'. Valid: " \o ValidActions)

(***************************************************************************)
(* browser_act                                                             *)
(***************************************************************************)
Traceback == "Traceback (most recent call last):\n  ..."

\* an exception leaving _dispatch with no handler around the call
dispatch_exception_unhandled(d, action, p, c) ==
  IF Raised(d) THEN [ d EXCEPT !.result = "" ] ELSE d

\* except Exception as e: recover with a fresh snapshot.  _take_snapshot
\* guards each of its own browser calls, so the inner handler's second
\* return is not reached.
dispatch_exception(d, action, p, c) ==
  IF ~Raised(d) THEN d
  ELSE Strict(LAMBDA s :
                Return(s, "Error during '" \o action \o "': " \o d.exc
                            \o "\n\nCurrent page state:\n" \o s.snap[1]),
              TakeSnapshot([ d EXCEPT !.exc = "", !.result = "" ], p, c))

\* a variant that handles close after the session acquisition
browser_act_acquiring(m, action_arg, kw) ==
  Strict(LAMBDA g :
           IF g.bad THEN g
           ELSE Return(close_all([ g EXCEPT !.exc = "", !.acquire_ops = g.ops,
                                            !.acquired = g.s ]),
                       "Browser closed."),
         get_page(m))

browser_act(m, action_arg, kw) ==
  LET action == Strip(Lower(action_arg))
  IN IF action = "close" THEN Return(close_all(m), "Browser closed.")
     ELSE Strict(LAMBDA g :
            IF g.bad THEN g
            ELSE IF Raised(g)
            THEN [ g EXCEPT !.exc = "", !.acquire_ops = g.ops, !.acquired = g.s,
                            !.result = "Browser launch failed: " \o g.exc \o "\n" \o Traceback ]
            ELSE dispatch_exception(
                   _dispatch([ g EXCEPT !.ops = << >>, !.acquire_ops = g.ops,
                                        !.acquired = g.s,
                                        !.page = g.s._page, !.cdp = g.s._cdp ],
                             action, g.s._page, g.s._cdp, kw),
                   action, g.s._page, g.s._cdp),
            get_page(m))

(***************************************************************************)
(* Spec: sequences of browser_act calls on one engine                      *)
(***************************************************************************)
NoCall ==
  [ action |-> "", kw |-> << >>, faults |-> {}, result |-> "", raised |-> FALSE,
    snap |-> << >>, snap_page |-> None, ops |-> << >>, interaction |-> << >>,
    acquire_ops |-> << >>, acted |-> << >>, selected |-> << >>,
    issued |-> [ pid |-> None, registry |-> EmptyRegistry ],
    reg_before |-> << >>, page |-> None, cdp |-> None, page_after |-> None,
    current_before |-> {}, session_before |-> NoSession, acquired |-> NoSession,
    closed_before |-> FALSE ]

Idle == [ action |-> "", kw |-> << >>, faults |-> {} ]

\* the coroutines that call browser_act at the same time, and one that is
\* not in a call: its position pc and the locals of browser_act, _dispatch
\* and _take_snapshot.  warm: it made a call when there was a session;
\* tabbed: it made a new_tab, switch_tab or close_tab call; page, cdp: what
\* get_page returned to it last.
MaxTasks == 2
Tasks == 1..MaxTasks
IdleTask ==
  [ pc |-> "idle", action |-> "", kw |-> << >>, warm |-> FALSE, tabbed |-> FALSE,
    page |-> None, cdp |-> None, ctx |-> None, after |-> "",
    att |-> None, drv |-> None, tgt |-> None, tcdp |-> None, sdoc |-> "",
    registry |-> EmptyRegistry, stored |-> FALSE, fi |-> 0, ref |-> 0, start_ref |-> 0,
    error |-> "", result |-> "" ]

EngineInit ==
  /\ session = NoSession
  /\ pages = << >>
  /\ doc = [ p \in PageIds |-> "blank" ]
  /\ closed = {}
  /\ _REGISTRY = << >>
  /\ held = [ pid |-> None, registry |-> EmptyRegistry ]
  /\ current = {}
  /\ launches = 0
  /\ calls = 0
  /\ call = Idle
  /\ last = NoCall
  /\ lock = None
  /\ task = [ t \in Tasks |-> IdleTask ]
  /\ published = << >>
  /\ hung = {}
  /\ ended = {}
  /\ v7 = V7Start

NoKey == [ engine |-> "", key |-> "" ]
KeysIdle == key_in = NoKey /\ key_out = << >>

Init ==
  /\ snap_pv = PageView(<< >>, << MainFrame(SnapUrl) >>, FALSE, FALSE, << SnapUrl >>, 1)
  /\ snap_out = NoSnapshot
  /\ KeysIdle
  /\ EngineInit

\* the state a call starts from
Start(F, picks) ==
  [ s |-> session, pages |-> pages, doc |-> doc, closed |-> closed, reg |-> _REGISTRY,
    held |-> held, launches |-> launches, faults |-> F, picks |-> picks,
    bad |-> FALSE, new_page |-> None, ops |-> << >>, acquire_ops |-> << >>,
    before_snap |-> << >>, exc |-> "", result |-> "", text |-> "", snap |-> << >>,
    snap_page |-> None, snap_whole |-> FALSE, acted |-> << >>, ok |-> FALSE,
    selected |-> << >>,
    method |-> "", page |-> None, cdp |-> None, acquired |-> NoSession ]

\* which candidate id each new page of a call gets: a call opens at most
\* two pages (a launch and a new tab)
OtherPicks == 2..Cardinality(IdCandidates(pages, session, _REGISTRY))

\* the outcomes of Run, one per choice of ids for the pages it opens (a pick
\* the call never takes, Len(o.picks) of them, changes nothing)
OutcomesOf(Run(_)) ==
  UNION { { o1 } \cup
          (IF Len(o1.picks) = 2 THEN {}
           ELSE UNION { UNION { { oa } \cup
                                (IF Len(oa.picks) = 1 THEN {}
                                 ELSE { Run(<< a, b >>) : b \in OtherPicks })
                                : oa \in { Run(<< a, 1 >>) } }
                        : a \in OtherPicks })
          \cup (IF Len(o1.picks) # 0 THEN {}
                ELSE { Run(<< 1, b >>) : b \in OtherPicks })
          : o1 \in { Run(<< 1, 1 >>) } }

\* the outcomes of a call
Outcomes(action_arg, kw, F) ==
  OutcomesOf(LAMBDA picks : browser_act(Start(F, picks), action_arg, kw))

Record(o, action_arg, kw, F) ==
  [ action |-> Strip(Lower(action_arg)), kw |-> kw, faults |-> F,
    result |-> o.result, raised |-> Raised(o),
    snap |-> o.snap, snap_page |-> o.snap_page, ops |-> o.ops,
    interaction |-> IF o.snap # << >> THEN o.before_snap ELSE o.ops,
    acquire_ops |-> o.acquire_ops, acted |-> o.acted, selected |-> o.selected,
    issued |-> held, reg_before |-> _REGISTRY,
    page |-> o.page, cdp |-> o.cdp, page_after |-> o.s._page,
    current_before |-> current, session_before |-> session, acquired |-> o.acquired,
    closed_before |-> (session._page # None /\ session._page \in closed) ]

Call(action_arg, kw, F) ==
  /\ \E o \in Outcomes(action_arg, kw, F) :
         /\ ~o.bad
         /\ session' = o.s
         /\ pages' = o.pages
         /\ doc' = o.doc
         /\ closed' = o.closed
         /\ _REGISTRY' = o.reg
         /\ held' = o.held
         /\ launches' = o.launches
         /\ current' = ({ q \in current \cap Range(o.pages) : o.doc[q] = doc[q] }
                           \ ({ o.snap_page } \cup o.closed))
                         \cup (IF o.snap_whole THEN { o.snap_page } ELSE {})
         /\ last' = Record(o, action_arg, kw, F)
  /\ UNCHANGED << snapVars, calls, taskVars >>

\* browser_act runs the call made and returns its result
BrowserAct ==
  /\ call # Idle
  /\ Call(call.action, call.kw, call.faults)
  /\ call' = Idle

\* calls are made one after the other, each when the one before returned
CanCall == calls < MaxCalls /\ call = Idle

\* the caller calls browser_act(action, **kw); F: the browser calls that
\* fail while it runs
Invoke(action_arg, kw, F) ==
  /\ call' = [ action |-> action_arg, kw |-> kw, faults |-> F ]
  /\ calls' = calls + 1
  /\ last' = NoCall
  /\ UNCHANGED << snapVars, session, pages, doc, closed, _REGISTRY, held, current,
                  launches, taskVars >>

\* arguments and failing browser calls of the calls made
Args(kws, faultsets) == { [ kw |-> k, faults |-> f ] : k \in kws, f \in faultsets }
Refs == { [ ref |-> r ] : r \in 1..3 }
AcquireFaults ==
  { { "launch" }, { "probe" }, { "probe", "reattach" }, { "probe", "reattach", "launch" } }

NavigateArgs ==
  Args({ << >>, [ url |-> UrlBad ] }, { {} })
  \cup Args({ [ url |-> UrlA ], [ url |-> UrlB ] }, { {}, { "goto_timeout" } })
SnapshotArgs == Args({ << >> }, { {}, { "ax_tree" }, { "title" } } \cup AcquireFaults)
GetTextArgs == Args({ << >> }, { {}, { "title" } })
ClickArgs ==
  Args({ << >> } \cup Refs, { {} })
  \cup Args({ [ ref |-> 1 ] }, { { "box" }, { "box", "resolve" },
                                { "box", "resolve", "focus" }, { "input" },
                                { "load_state" } }
                              \cup AcquireFaults)
  \cup Args({ [ ref |-> 2 ], [ ref |-> 3 ] }, { { "locator" } })
FillArgs ==
  Args({ << >>, [ ref |-> 1 ], [ text |-> "hi" ] }
       \cup { [ ref |-> r, text |-> "hi" ] : r \in 1..3 }, { {} })
  \cup Args({ [ ref |-> 1, text |-> "hi" ] }, { { "box" }, { "box", "focus" }, { "input" } })
TypeArgs ==
  Args({ << >>, [ ref |-> 1 ] } \cup { [ ref |-> r, text |-> "hi" ] : r \in 1..3 }, { {} })
  \cup Args({ [ ref |-> 1, text |-> "hi" ] }, { { "box" }, { "box", "focus" }, { "input" } })
PressArgs ==
  Args({ << >> }, { {} }) \cup Args({ [ key |-> "Enter" ] }, { {}, { "input" } })
HoverArgs ==
  Args({ << >> } \cup Refs, { {} }) \cup Args({ [ ref |-> 1 ] }, { { "box" }, { "input" } })
SelectOptionArgs ==
  Args({ << >>, [ ref |-> 1 ], [ ref |-> 3 ], [ ref |-> 1, value |-> "xl" ],
         [ ref |-> 1, text |-> "Large" ], [ ref |-> 3, value |-> "xl" ],
         [ ref |-> 2, value |-> "xl" ], [ ref |-> 2, value |-> "xxl" ],
         [ ref |-> 2, text |-> "Large" ], [ ref |-> 2, text |-> "Huge" ] }, { {} })
  \cup Args({ [ ref |-> 1 ], [ ref |-> 1, value |-> "xl" ] },
            { { "resolve" }, { "call_function" } })
UploadFileArgs ==
  Args({ << >>, [ ref |-> 1 ], [ ref |-> 1, filepath |-> "/tmp/cv.pdf" ],
         [ ref |-> 1, filepath |-> "/tmp/none.pdf" ],
         [ ref |-> 3, filepath |-> "/tmp/cv.pdf" ] }, { {} })
  \cup Args({ [ ref |-> 1, filepath |-> "/tmp/cv.pdf" ] }, { { "set_files" } })
ScrollArgs ==
  Args({ [ direction |-> "down", amount |-> 600 ], [ direction |-> "up", amount |-> 600 ] },
       { {} })
  \cup Args({ [ direction |-> "down", amount |-> 600 ] }, { { "page_op" } })
WaitArgs == Args({ [ duration |-> 2 ] }, { {} })
WaitForArgs ==
  Args({ [ duration |-> 2 ], [ duration |-> 2, selector |-> "#login-form" ],
         [ duration |-> 2, url |-> "**/dash" ] }, { {} })
  \cup Args({ [ duration |-> 2 ] }, { { "page_op" } })
PageOpArgs == Args({ << >> }, { {}, { "page_op" } })
NewTabArgs ==
  Args({ << >>, [ url |-> UrlA ], [ url |-> UrlBad ] }, { {} })
  \cup Args({ [ url |-> UrlA ] }, { { "new_page" }, { "new_cdp_session" }, { "goto_timeout" } })
SwitchTabArgs ==
  Args({ << >>, [ index |-> 0 ], [ index |-> 1 ], [ index |-> 5 ] }, { {} })
  \cup Args({ [ index |-> 1 ] }, { { "new_cdp_session" } })
CloseTabArgs == Args({ << >> }, { {}, { "page_op" }, { "new_cdp_session" } })
CloseArgs == Args({ << >> }, SUBSET { "detach", "context_close", "stop" })

Navigate ==
  /\ CanCall
  /\ \E a \in NavigateArgs : Invoke("navigate", a.kw, a.faults)
Snapshot ==
  /\ CanCall
  /\ \E a \in SnapshotArgs : Invoke(IF a.faults = {} THEN " Snapshot " ELSE "snapshot",
                                    a.kw, a.faults)
GetText ==
  /\ CanCall
  /\ \E a \in GetTextArgs : Invoke("get_text", a.kw, a.faults)
Click ==
  /\ CanCall
  /\ \E a \in ClickArgs : Invoke("click", a.kw, a.faults)
Fill ==
  /\ CanCall
  /\ \E a \in FillArgs : Invoke("fill", a.kw, a.faults)
Type ==
  /\ CanCall
  /\ \E a \in TypeArgs : Invoke("type", a.kw, a.faults)
Press ==
  /\ CanCall
  /\ \E a \in PressArgs : Invoke("press", a.kw, a.faults)
Hover ==
  /\ CanCall
  /\ \E a \in HoverArgs : Invoke("hover", a.kw, a.faults)
SelectOption ==
  /\ CanCall
  /\ \E a \in SelectOptionArgs : Invoke("select_option", a.kw, a.faults)
UploadFile ==
  /\ CanCall
  /\ \E a \in UploadFileArgs : Invoke("upload_file", a.kw, a.faults)
Scroll ==
  /\ CanCall
  /\ \E a \in ScrollArgs : Invoke("scroll", a.kw, a.faults)
Wait ==
  /\ CanCall
  /\ \E a \in WaitArgs : Invoke("wait", a.kw, a.faults)
WaitFor ==
  /\ CanCall
  /\ \E a \in WaitForArgs : Invoke("wait_for", a.kw, a.faults)
Screenshot ==
  /\ CanCall
  /\ \E a \in PageOpArgs : Invoke("screenshot", a.kw, a.faults)
Back ==
  /\ CanCall
  /\ \E a \in PageOpArgs : Invoke("back", a.kw, a.faults)
Forward ==
  /\ CanCall
  /\ \E a \in PageOpArgs : Invoke("forward", a.kw, a.faults)
NewTab ==
  /\ CanCall
  /\ \E a \in NewTabArgs : Invoke("new_tab", a.kw, a.faults)
SwitchTab ==
  /\ CanCall
  /\ \E a \in SwitchTabArgs : Invoke("switch_tab", a.kw, a.faults)
CloseTab ==
  /\ CanCall
  /\ \E a \in CloseTabArgs : Invoke("close_tab", a.kw, a.faults)
Close ==
  /\ CanCall
  /\ \E a \in CloseArgs : Invoke("close", a.kw, a.faults)
UnknownAction ==
  /\ CanCall
  /\ Invoke("dance", << >>, {})

\* the page changes by itself between two calls: a script of document a
\* removes the Delete button
PageChanges ==
  /\ call = Idle
  /\ session._page # None
  /\ session._page \notin closed
  /\ doc[session._page] = "a"
  /\ doc' = [ doc EXCEPT ![session._page] = "a2" ]
  /\ current' = current \ { session._page }
  /\ UNCHANGED << snapVars, session, pages, closed, _REGISTRY, held, launches, calls,
                  call, last, taskVars >>

Next ==
  \/ Navigate \/ Snapshot \/ GetText \/ Click \/ Fill \/ Type \/ Press \/ Hover
  \/ SelectOption \/ UploadFile \/ Scroll \/ Wait \/ WaitFor \/ Screenshot
  \/ Back \/ Forward \/ NewTab \/ SwitchTab \/ CloseTab \/ Close \/ UnknownAction
  \/ BrowserAct \/ PageChanges

Spec == Init /\ [][Next]_vars

(***************************************************************************)
(* SpecSnap: _take_snapshot applied to each page of SnapInputs             *)
(***************************************************************************)
SnapInit ==
  /\ snap_pv \in SnapInputs
  /\ snap_out = NoSnapshot
  /\ KeysIdle
  /\ EngineInit

SnapTake ==
  /\ ~snap_out.done
  /\ snap_out' = [ _take_snapshot(snap_pv) EXCEPT !.v7 = _take_snapshot_v7(snap_pv) ]
  /\ UNCHANGED snap_pv
  /\ UNCHANGED engineVars

SnapNext == SnapTake

SpecSnap == SnapInit /\ [][SnapNext]_vars

(***************************************************************************)
(* SpecKeys: _cdp_key of both engine iterations applied to each key of     *)
(* KeyInputs.  A table entry is the tuple the code writes.                 *)
(***************************************************************************)
\* staged engine: (key name, key code, modifier bitmask)
_KEY_MAP ==
  ("Tab" :> << "Tab", 9, 0 >>) @@ ("Enter" :> << "Return", 13, 0 >>)
  @@ ("Return" :> << "Return", 13, 0 >>) @@ ("Escape" :> << "Escape", 27, 0 >>)
  @@ ("Backspace" :> << "Backspace", 8, 0 >>) @@ ("Delete" :> << "Delete", 46, 0 >>)
  @@ ("Space" :> << " ", 32, 0 >>) @@ ("ArrowDown" :> << "ArrowDown", 40, 0 >>)
  @@ ("ArrowUp" :> << "ArrowUp", 38, 0 >>) @@ ("ArrowLeft" :> << "ArrowLeft", 37, 0 >>)
  @@ ("ArrowRight" :> << "ArrowRight", 39, 0 >>) @@ ("Home" :> << "Home", 36, 0 >>)
  @@ ("End" :> << "End", 35, 0 >>) @@ ("PageUp" :> << "PageUp", 33, 0 >>)
  @@ ("PageDown" :> << "PageDown", 34, 0 >>)
  @@ ("Control+a" :> << "a", 65, 2 >>) @@ ("Control+c" :> << "c", 67, 2 >>)
  @@ ("Control+v" :> << "v", 86, 2 >>) @@ ("Control+x" :> << "x", 88, 2 >>)
  @@ ("Control+z" :> << "z", 90, 2 >>) @@ ("Control+Enter" :> << "Return", 13, 2 >>)
  @@ ("Shift+Tab" :> << "Tab", 9, 8 >>) @@ ("Shift+Enter" :> << "Return", 13, 8 >>)

\* v7 engine: (key name, key code) or (key name, key code, modifier bitmask)
_KEY_MAP_v7 ==
  ("Tab" :> << "Tab", 9 >>) @@ ("Enter" :> << "Return", 13 >>)
  @@ ("Return" :> << "Return", 13 >>) @@ ("Escape" :> << "Escape", 27 >>)
  @@ ("Backspace" :> << "Backspace", 8 >>) @@ ("Delete" :> << "Delete", 46 >>)
  @@ ("ArrowDown" :> << "ArrowDown", 40 >>) @@ ("ArrowUp" :> << "ArrowUp", 38 >>)
  @@ ("ArrowLeft" :> << "ArrowLeft", 37 >>) @@ ("ArrowRight" :> << "ArrowRight", 39 >>)
  @@ ("Control+a" :> << "a", 65, 2 >>) @@ ("Control+Enter" :> << "Return", 13, 2 >>)
  @@ ("Control+c" :> << "c", 67, 2 >>) @@ ("Control+v" :> << "v", 86, 2 >>)
  @@ ("Control+x" :> << "x", 88, 2 >>) @@ ("Control+z" :> << "z", 90, 2 >>)
  @@ ("Control+Shift+C" :> << "c", 67, 6 >>) @@ ("Control+Shift+B" :> << "b", 66, 6 >>)

\* ord(c) of a letter, a digit or a blank
Digits == << "0", "1", "2", "3", "4", "5", "6", "7", "8", "9" >>
Ord(c) ==
  IF c \in LowerSet THEN 96 + (CHOOSE i \in DOMAIN LowerLetters : LowerLetters[i] = c)
  ELSE IF c \in UpperSet THEN 64 + (CHOOSE i \in DOMAIN UpperLetters : UpperLetters[i] = c)
  ELSE IF \E i \in DOMAIN Digits : Digits[i] = c
       THEN 47 + (CHOOSE i \in DOMAIN Digits : Digits[i] = c)
  ELSE 32

\* key_name, key_code, mods as each iteration's _cdp_key computes them
key_lookup(key) ==
  IF key \in DOMAIN _KEY_MAP
  THEN [ key_name |-> _KEY_MAP[key][1], key_code |-> _KEY_MAP[key][2],
         mods |-> _KEY_MAP[key][3] ]
  ELSE [ key_name |-> key, key_code |-> IF Len(key) = 1 THEN Ord(SubSeq(key, 1, 1)) ELSE 0,
         mods |-> 0 ]

key_lookup_v7(key) ==
  IF key \in DOMAIN _KEY_MAP_v7
  THEN [ key_name |-> _KEY_MAP_v7[key][1], key_code |-> _KEY_MAP_v7[key][2],
         mods |-> IF Len(_KEY_MAP_v7[key]) > 2 THEN _KEY_MAP_v7[key][3] ELSE 0 ]
  ELSE [ key_name |-> key, key_code |-> IF Len(key) = 1 THEN Ord(SubSeq(key, 1, 1)) ELSE 0,
         mods |-> 0 ]

\* the parameters of one Input.dispatchKeyEvent
key_event(k, type) ==
  [ type |-> type, key |-> k.key_name,
    windowsVirtualKeyCode |-> k.key_code, nativeVirtualKeyCode |-> k.key_code,
    modifiers |-> k.mods,
    code |-> IF Len(k.key_name) = 1 THEN "Key" \o UpperChar(k.key_name) ELSE k.key_name,
    isKeypad |-> FALSE ]

KeyEngines == { "staged", "v7" }
KeyTypes == << "keyDown", "keyUp" >>
\* every key of either table, and keys of neither
UnmappedKeys == { "x", "A", "7", "F5", "Control+b", "Alt+Tab", "Meta+Shift+z" }
KeyInputs ==
  { [ engine |-> e, key |-> k ] :
      e \in KeyEngines, k \in DOMAIN _KEY_MAP \cup DOMAIN _KEY_MAP_v7 \cup UnmappedKeys }

KeyInit ==
  /\ key_in \in KeyInputs
  /\ key_out = << >>
  /\ snap_pv = PageView(<< >>, << MainFrame(SnapUrl) >>, FALSE, FALSE, << SnapUrl >>, 1)
  /\ snap_out = NoSnapshot
  /\ EngineInit

\* for t in ("keyDown", "keyUp"): await cdp.send("Input.dispatchKeyEvent", ...)
KeySend ==
  /\ Len(key_out) < Len(KeyTypes)
  /\ key_out' = Append(key_out,
                       key_event(IF key_in.engine = "v7" THEN key_lookup_v7(key_in.key)
                                 ELSE key_lookup(key_in.key),
                                 KeyTypes[Len(key_out) + 1]))
  /\ UNCHANGED << key_in, snap_pv, snap_out >>
  /\ UNCHANGED << session, pages, doc, closed, _REGISTRY, held, current, launches,
                  calls, call, last, lock, task, published, hung, ended, v7 >>

KeyNext == KeySend

SpecKeys == KeyInit /\ [][KeyNext]_vars

(***************************************************************************)
(* SpecV7: sequential browser_act calls on the v7 engine                   *)
(***************************************************************************)
Kw_v7(url, index, key) == [ url |-> url, index |-> index, key |-> key ]

\* one browser_act call of the v7 engine, from entry to return or raise
V7Call(action, kw, faults) ==
  /\ v7.calls < MaxV7Calls
  /\ action = "new_tab" => v7.s.pages < MaxV7Tabs
  /\ LET out == browser_act_v7(v7.s, action, kw, faults)
     IN v7' = [ s |-> out.s, calls |-> v7.calls + 1,
                last |-> [ action |-> action, faults |-> faults,
                           result |-> out.result, raised |-> out.raised ] ]
  /\ UNCHANGED << snap_pv, snap_out, key_in, key_out >>
  /\ UNCHANGED << session, pages, doc, closed, _REGISTRY, held, current, launches,
                  calls, call, last, lock, task, published, hung, ended >>

V7Faults(points) == { {} } \cup { { f } : f \in points }

V7Close ==
  \E F \in V7Faults({"detach", "browser.close", "playwright.stop"}) :
     V7Call("close", Kw_v7("", 0, ""), F)
V7Navigate ==
  \E u \in {"", UrlA}, F \in V7Faults({"launch", "goto"}) :
     V7Call("navigate", Kw_v7(u, 0, ""), F)
V7Screenshot ==
  \E F \in V7Faults({"screenshot"}) : V7Call("screenshot", Kw_v7("", 0, ""), F)
V7Scroll ==
  \E F \in V7Faults({"wheel", "title"}) : V7Call("scroll", Kw_v7("", 0, ""), F)
V7Back ==
  \E F \in V7Faults({"go_back"}) : V7Call("back", Kw_v7("", 0, ""), F)
V7Forward ==
  \E F \in V7Faults({"go_forward"}) : V7Call("forward", Kw_v7("", 0, ""), F)
V7NewTab ==
  \E u \in {"", UrlB}, F \in V7Faults({"new_page", "new_cdp_session", "goto"}) :
     V7Call("new_tab", Kw_v7(u, 0, ""), F)
V7SwitchTab ==
  \E i \in 0..MaxV7Tabs, F \in V7Faults({"new_cdp_session"}) :
     V7Call("switch_tab", Kw_v7("", i, ""), F)
V7CloseTab ==
  \E F \in V7Faults({"page.close", "new_cdp_session"}) :
     V7Call("close_tab", Kw_v7("", 0, ""), F)
V7Press ==
  \E k \in {"", "Enter"}, F \in V7Faults({"cdp_key"}) :
     V7Call("press", Kw_v7("", 0, k), F)

V7Next ==
  \/ V7Close \/ V7Navigate \/ V7Screenshot \/ V7Scroll \/ V7Back \/ V7Forward
  \/ V7NewTab \/ V7SwitchTab \/ V7CloseTab \/ V7Press

SpecV7 == Init /\ [][V7Next]_vars

\* the parts of a key name between "+" signs
RECURSIVE KeyParts(_, _, _)
KeyParts(s, i, part) ==
  IF i > Len(s) THEN << part >>
  ELSE IF SubSeq(s, i, i) = "+" /\ part # "" /\ i < Len(s)
       THEN << part >> \o KeyParts(s, i + 1, "")
  ELSE KeyParts(s, i + 1, part \o SubSeq(s, i, i))

ModifierBit(name) ==
  CASE name = "Alt" -> 1
    [] name = "Control" -> 2
    [] name = "Ctrl" -> 2
    [] name = "Meta" -> 4
    [] name = "Shift" -> 8
    [] OTHER -> 0

RECURSIVE SumBits(_, _)
SumBits(parts, n) == IF n = 0 THEN 0 ELSE ModifierBit(parts[n]) + SumBits(parts, n - 1)
\* the bits of the modifiers a key name carries before its last part
NameModifiers(key) ==
  LET parts == KeyParts(key, 1, "") IN SumBits(parts, Len(parts) - 1)

KeyTable == IF key_in.engine = "v7" THEN _KEY_MAP_v7 ELSE _KEY_MAP

\* C21: in the key table of both engine iterations every combo is sent with
\* the sum of the bits of the modifiers in its name (Alt=1, Ctrl=2, Meta=4,
\* Shift=8) and a plain key with modifiers 0; a key outside the table is
\* sent with no modifiers and, when a single character, its code point.
C21_ModifiersMatchName ==
  \A i \in DOMAIN key_out :
    IF key_in.key \in DOMAIN KeyTable
    THEN key_out[i].modifiers = NameModifiers(key_in.key)
    ELSE /\ key_out[i].modifiers = 0
         /\ Len(key_in.key) = 1 =>
              key_out[i].windowsVirtualKeyCode = Ord(key_in.key)

(***************************************************************************)
(* SpecTasks: browser_act coroutines running at the same time on one event *)
(* loop.  A coroutine runs alone from one await to the next, so each       *)
(* action below is the code from the completion of one await to the start  *)
(* of the next; awaits between which the code touches nothing shared are   *)
(* taken together.  No browser call fails by itself here: a call fails     *)
(* only on a page or context that is closed.  The calls made are navigate, *)
(* snapshot, new_tab, switch_tab and close_tab; of the snapshot only the   *)
(* registry is kept.                                                       *)
(***************************************************************************)
TabActions == { "new_tab", "switch_tab", "close_tab" }
TaskCalls ==
  { [ action |-> "navigate", kw |-> [ url |-> UrlC ] ],
    [ action |-> "snapshot", kw |-> << >> ],
    [ action |-> "new_tab", kw |-> [ url |-> UrlA ] ],
    [ action |-> "switch_tab", kw |-> [ index |-> 0 ] ],
    [ action |-> "close_tab", kw |-> << >> ] }

\* what no coroutine step changes, and with ended what only a step that
\* stops a driver or closes a context changes
stillVars == << snap_pv, snap_out, key_in, key_out, hung, v7, held, current, call, last >>
callVars == << stillVars, ended >>

SetTask(t, r) == task' = [ task EXCEPT ![t] = r ]

\* a new page object: its id is one no page had before (a coroutine may
\* still hold any page there was)
FreshIds == PageIds \ (Range(pages) \cup closed)
FreshId == CHOOSE q \in FreshIds : \A r \in FreshIds : q <= r

\* ctx.pages of the context a coroutine holds: a context whose driver was
\* stopped has none
CtxPages(ctx, pgs) == IF ctx = session._context THEN pgs ELSE << >>

\* the call returns
Finish(me, result) ==
  [ IdleTask EXCEPT !.warm = me.warm, !.tabbed = me.tabbed, !.result = result,
                    !.page = me.page, !.cdp = me.cdp ]

\* _take_snapshot(p, c) begins: await page.title()
StartSnapshot(me, p, c) == [ me EXCEPT !.tgt = p, !.tcdp = c, !.pc = "snap_title" ]

\* browser_act's except Exception: _take_snapshot(page, cdp)
Recover(me, e) == StartSnapshot([ me EXCEPT !.error = e ], me.page, me.cdp)

\* what browser_act returns once the snapshot is there (its text left out)
TaskResult(me) ==
  IF me.error # "" THEN "Error during '" \o me.action \o "': " \o me.error
  ELSE CASE me.action = "navigate" -> "Navigated to " \o me.kw.url
         [] me.action = "new_tab" -> "Opened new tab: " \o me.kw.url
         [] me.action = "switch_tab" -> "Switched to tab [" \o ToString(me.kw.index) \o "]"
         [] me.action = "close_tab" -> "Tab closed"
         [] OTHER -> ""

\* a coroutine calls browser_act and reaches "async with cls._lock"
TaskCallOf(t, made) ==
  /\ task[t].pc = "idle"
  /\ calls < MaxCalls
  /\ \E c \in made :
       SetTask(t, [ IdleTask EXCEPT !.pc = "get_page",
                                    !.action = Strip(Lower(c.action)),
                                    !.kw = c.kw,
                                    !.warm = task[t].warm \/ session # NoSession,
                                    !.tabbed = task[t].tabbed \/ c.action \in TabActions,
                                    !.page = task[t].page, !.cdp = task[t].cdp ])
  /\ calls' = calls + 1
  /\ UNCHANGED << callVars, session, pages, doc, closed, _REGISTRY, launches, lock,
                  published >>
TaskCall(t) == TaskCallOf(t, TaskCalls)

\* the browser of the session's context stopped answering: an await with a
\* timeout ends by it, one without never ends
Hung == session._context \in hung

\* where _launch begins: playwright.stop() when there is a driver
LaunchEntry == IF session._playwright # None THEN "launch_stop" ELSE "launch_start"
\* _launch is called: drv is the driver "await cls._playwright.stop()" is
\* called on
EnterLaunch(me, after) ==
  [ me EXCEPT !.pc = LaunchEntry, !.after = after, !.drv = session._playwright ]

\* _launch raised inside get_page: "async with" frees the lock and
\* browser_act returns "Browser launch failed: ..."
LaunchFailed(t, e) ==
  /\ SetTask(t, Finish(task[t], "Browser launch failed: " \o e \o "\n" \o Traceback))
  /\ lock' = None

\* the lock is free: the coroutine takes it and runs get_page to its first
\* await (the first of _launch, or the liveness probe on cls._cdp)
Acquire_unlocked(t) ==
  /\ task[t].pc = "get_page"
  /\ lock' = t
  /\ SetTask(t, IF session._page = None \/ session._page \in closed
                THEN EnterLaunch(task[t], "probe")
                ELSE [ task[t] EXCEPT !.pc = "probe", !.att = session._cdp ])
  /\ UNCHANGED << callVars, session, pages, doc, closed, _REGISTRY, launches, calls,
                  published >>

Acquire(t) ==
  /\ task[t].pc = "get_page"
  /\ lock = None
  /\ lock' = t
  /\ SetTask(t, IF session._page = None \/ session._page \in closed
                THEN EnterLaunch(task[t], "probe")
                ELSE [ task[t] EXCEPT !.pc = "probe", !.att = session._cdp ])
  /\ UNCHANGED << callVars, session, pages, doc, closed, _REGISTRY, launches, calls,
                  published >>

\* _launch: await cls._playwright.stop() returned
LaunchStop(t) ==
  /\ task[t].pc = "launch_stop"
  /\ closed' = closed \cup Range(pages)
  /\ ended' = ended \cup { << "driver", task[t].drv >>, << "context", task[t].drv >> }
  /\ SetTask(t, [ task[t] EXCEPT !.pc = "launch_start" ])
  /\ UNCHANGED << stillVars, session, pages, doc, _REGISTRY, launches, calls, lock,
                  published >>

\* cls._playwright = await async_playwright().start()
LaunchStart(t) ==
  /\ task[t].pc = "launch_start"
  /\ session' = [ session EXCEPT !._playwright = launches + 1 ]
  /\ launches' = launches + 1
  /\ SetTask(t, [ task[t] EXCEPT !.pc = "launch_context" ])
  /\ UNCHANGED << callVars, pages, doc, closed, _REGISTRY, calls, lock, published >>

\* cls._context = await launch_persistent_context(...): the context opens
\* with one page; on a driver that was stopped meanwhile the call raises
LaunchContext(t) ==
  /\ task[t].pc = "launch_context"
  /\ IF << "driver", launches >> \in ended
     THEN /\ LaunchFailed(t, ExcText("launch"))
          /\ UNCHANGED << session, pages, doc >>
     ELSE /\ FreshIds # {}
          /\ session' = [ session EXCEPT !._context = launches ]
          /\ pages' = << FreshId >>
          /\ doc' = [ doc EXCEPT ![FreshId] = "blank" ]
          /\ SetTask(t, [ task[t] EXCEPT !.pc = "launch_page" ])
          /\ UNCHANGED lock
  /\ UNCHANGED << callVars, closed, _REGISTRY, launches, calls, published >>

\* add_init_script returned: cls._page = cls._context.pages[0], then
\* new_cdp_session(cls._page) is awaited.  It raised on a context that was
\* closed meanwhile, and cls._context.pages raises when the field was set
\* to None meanwhile
LaunchPage(t) ==
  /\ task[t].pc = "launch_page"
  /\ IF << "context", launches >> \in ended
     THEN /\ LaunchFailed(t, ExcText("page_op"))
          /\ UNCHANGED session
     ELSE IF session._context = None
     THEN /\ LaunchFailed(t, "'NoneType' object has no attribute 'pages'")
          /\ UNCHANGED session
     ELSE /\ pages # << >>
          /\ session' = [ session EXCEPT !._page = pages[1] ]
          /\ SetTask(t, [ task[t] EXCEPT !.pc = "launch_cdp", !.att = pages[1] ])
          /\ UNCHANGED lock
  /\ UNCHANGED << callVars, pages, doc, closed, _REGISTRY, launches, calls, published >>

\* cls._cdp = the new session; Accessibility.enable is awaited.  For a
\* page that was closed meanwhile new_cdp_session raised
LaunchCdp(t) ==
  /\ task[t].pc = "launch_cdp"
  /\ IF task[t].att \in closed
     THEN /\ LaunchFailed(t, ExcText("new_cdp_session"))
          /\ UNCHANGED session
     ELSE /\ session' = [ session EXCEPT !._cdp = task[t].att ]
          /\ SetTask(t, [ task[t] EXCEPT !.pc = "launched" ])
          /\ UNCHANGED lock
  /\ UNCHANGED << callVars, pages, doc, closed, _REGISTRY, launches, calls, published >>

\* _dispatch(action, page, cdp, **kw) up to its first await; s: the session
\* fields as get_page left them
Dispatch(t, me, s) ==
  LET ctx == s._context
      pgs == CtxPages(ctx, pages)
      idx == IF "index" \in DOMAIN me.kw THEN me.kw.index ELSE 0
  IN CASE me.action = "navigate" ->
            /\ SetTask(t, [ me EXCEPT !.pc = "goto" ])
            /\ session' = s
       [] me.action = "snapshot" ->
            /\ SetTask(t, StartSnapshot(me, me.page, me.cdp))
            /\ session' = s
       [] me.action = "new_tab" ->
            /\ SetTask(t, IF ctx = None THEN Finish(me, "Error: no browser context")
                          ELSE [ me EXCEPT !.pc = "new_page", !.ctx = ctx ])
            /\ session' = s
       [] me.action = "switch_tab" ->
            IF ctx = None
            THEN /\ SetTask(t, Finish(me, "Error: no browser context"))
                 /\ session' = s
            ELSE IF idx < 0 \/ idx >= Len(pgs)
            THEN /\ SetTask(t, Finish(me, "Error: tab index " \o ToString(idx)
                                            \o " out of range (0-"
                                            \o ToString(Len(pgs) - 1) \o ")"))
                 /\ session' = s
            ELSE /\ session' = [ s EXCEPT !._page = pgs[idx + 1] ]
                 /\ SetTask(t, [ me EXCEPT !.pc = "tab_attach", !.ctx = ctx,
                                           !.att = pgs[idx + 1], !.after = "snapshot" ])
       [] me.action = "close_tab" ->
            /\ SetTask(t, IF ctx = None THEN Finish(me, "Error: no browser context")
                          ELSE [ me EXCEPT !.pc = "close_page", !.ctx = ctx ])
            /\ session' = s

\* return cls._page, cls._cdp, leaving the lock; browser_act goes on into
\* _dispatch without an await between
GetPageReturn(t, s) ==
  /\ lock' = None
  /\ Dispatch(t, [ task[t] EXCEPT !.page = s._page, !.cdp = s._cdp ], s)

\* _launch returns (cls._browser = None): get_page goes on to the probe, or
\* returns when the launch was the handler of a failed re-attach
Launched(t) ==
  /\ task[t].pc = "launched"
  /\ IF task[t].att \in closed
     THEN /\ LaunchFailed(t, ExcText("input"))
          /\ UNCHANGED session
     ELSE IF task[t].after = "probe"
     THEN /\ session' = [ session EXCEPT !._browser = None ]
          /\ SetTask(t, [ task[t] EXCEPT !.pc = "probe", !.att = session._cdp ])
          /\ UNCHANGED lock
     ELSE GetPageReturn(t, [ session EXCEPT !._browser = None ])
  /\ UNCHANGED << callVars, pages, doc, closed, _REGISTRY, launches, calls, published >>

\* the probe on the session returned: get_page returns, or the probe raised
\* (after 3 s when the browser does not answer) and
\* new_cdp_session(cls._page) is awaited
Probe(t) ==
  /\ task[t].pc = "probe"
  /\ IF /\ task[t].att # None
        /\ task[t].att \notin closed
        /\ << "session", task[t].att >> \notin ended
        /\ ~Hung
     THEN GetPageReturn(t, session)
     ELSE /\ SetTask(t, [ task[t] EXCEPT !.pc = "reattach", !.att = session._page ])
          /\ UNCHANGED << lock, session >>
  /\ UNCHANGED << callVars, pages, doc, closed, _REGISTRY, launches, calls, published >>

\* new_cdp_session returned: cls._cdp is the new session, or it raised and
\* _launch runs
Reattach(t) ==
  /\ task[t].pc = "reattach"
  /\ IF task[t].att = None \/ task[t].att \in closed
     THEN /\ SetTask(t, EnterLaunch(task[t], "return"))
          /\ UNCHANGED << session, ended >>
     ELSE /\ session' = [ session EXCEPT !._cdp = task[t].att ]
          /\ ended' = ended \ { << "session", task[t].att >> }
          /\ SetTask(t, [ task[t] EXCEPT !.pc = "reattached" ])
  /\ UNCHANGED << stillVars, pages, doc, closed, _REGISTRY, launches, calls, lock,
                  published >>

\* Accessibility.enable returned: get_page returns; or it raised, the page
\* having been closed meanwhile, and _launch runs
Reattached(t) ==
  /\ task[t].pc = "reattached"
  /\ IF task[t].att \in closed
     THEN /\ SetTask(t, EnterLaunch(task[t], "return"))
          /\ UNCHANGED << lock, session >>
     ELSE GetPageReturn(t, session)
  /\ UNCHANGED << callVars, pages, doc, closed, _REGISTRY, launches, calls, published >>

\* navigate: page.goto returned and _smart_wait begins, or it timed out
\* (except PlaywrightTimeout: pass) and the snapshot begins
TaskGoto(t) ==
  LET me == task[t]
  IN /\ me.pc = "goto"
     /\ IF me.page \in closed
        THEN /\ SetTask(t, Finish(me, "Navigation error: " \o ExcText("page_op")))
             /\ UNCHANGED doc
        ELSE IF Hung
        THEN /\ SetTask(t, StartSnapshot(me, me.page, me.cdp))
             /\ UNCHANGED doc
        ELSE /\ doc' = [ doc EXCEPT ![me.page] = DocOfUrl(me.kw.url) ]
             /\ SetTask(t, [ me EXCEPT !.pc = "settle" ])
     /\ UNCHANGED << callVars, session, pages, closed, _REGISTRY, launches, calls, lock,
                     published >>

\* navigate: _smart_wait and _dismiss_banners returned; the snapshot begins
TaskSettle(t) ==
  LET me == task[t]
  IN /\ me.pc = "settle"
     /\ SetTask(t, IF me.page \in closed
                   THEN Finish(me, "Navigation error: " \o ExcText("page_op"))
                   ELSE StartSnapshot(me, me.page, me.cdp))
     /\ UNCHANGED << callVars, session, pages, doc, closed, _REGISTRY, launches, calls,
                     lock, published >>

\* new_tab: ctx.new_page() returned; BrowserSession._page = new_page, then
\* new_cdp_session(new_page) is awaited
TaskNewPage(t) ==
  LET me == task[t]
  IN /\ me.pc = "new_page"
     /\ IF me.ctx # session._context
        THEN /\ SetTask(t, Recover(me, ExcText("new_page")))
             /\ UNCHANGED << session, pages, doc >>
        ELSE /\ FreshIds # {}
             /\ Len(pages) < MaxTabs
             /\ pages' = Append(pages, FreshId)
             /\ doc' = [ doc EXCEPT ![FreshId] = "blank" ]
             /\ session' = [ session EXCEPT !._page = FreshId ]
             /\ SetTask(t, [ me EXCEPT !.pc = "tab_attach", !.att = FreshId,
                                       !.after = "goto" ])
     /\ UNCHANGED << callVars, closed, _REGISTRY, launches, calls, lock, published >>

\* new_tab, switch_tab, close_tab: new_cdp_session returned;
\* BrowserSession._cdp = the new session, then Accessibility.enable is awaited
TabAttach(t) ==
  LET me == task[t]
  IN /\ me.pc = "tab_attach"
     /\ IF me.att \in closed
        THEN /\ SetTask(t, Recover(me, ExcText("new_cdp_session")))
             /\ UNCHANGED session
        ELSE /\ session' = [ session EXCEPT !._cdp = me.att ]
             /\ SetTask(t, [ me EXCEPT !.pc = "tab_enable" ])
     /\ UNCHANGED << callVars, pages, doc, closed, _REGISTRY, launches, calls, lock,
                     published >>

\* Accessibility.enable returned: new_tab loads the url, switch_tab and
\* close_tab take the snapshot over BrowserSession._cdp
TabEnable(t) ==
  LET me == task[t]
  IN /\ me.pc = "tab_enable"
     /\ SetTask(t, IF me.after = "goto" THEN [ me EXCEPT !.pc = "tab_goto" ]
                   ELSE StartSnapshot(me, me.att, session._cdp))
     /\ UNCHANGED << callVars, session, pages, doc, closed, _REGISTRY, launches, calls,
                     lock, published >>

\* new_tab: new_page.goto returned and _smart_wait begins, or it timed out
\* and the snapshot begins
TabGoto(t) ==
  LET me == task[t]
  IN /\ me.pc = "tab_goto"
     /\ IF me.att \in closed
        THEN /\ SetTask(t, Recover(me, ExcText("page_op")))
             /\ UNCHANGED doc
        ELSE IF Hung
        THEN /\ SetTask(t, StartSnapshot(me, me.att, session._cdp))
             /\ UNCHANGED doc
        ELSE /\ doc' = [ doc EXCEPT ![me.att] = DocOfUrl(me.kw.url) ]
             /\ SetTask(t, [ me EXCEPT !.pc = "tab_settle" ])
     /\ UNCHANGED << callVars, session, pages, closed, _REGISTRY, launches, calls, lock,
                     published >>

\* new_tab: _smart_wait returned; _take_snapshot(new_page, BrowserSession._cdp)
TabSettle(t) ==
  LET me == task[t]
  IN /\ me.pc = "tab_settle"
     /\ SetTask(t, IF me.att \in closed THEN Recover(me, ExcText("page_op"))
                   ELSE StartSnapshot(me, me.att, session._cdp))
     /\ UNCHANGED << callVars, session, pages, doc, closed, _REGISTRY, launches, calls,
                     lock, published >>

\* close_tab: page.close() returned; with tabs remaining the last becomes
\* BrowserSession._page and new_cdp_session is awaited
ClosePage(t) ==
  LET me == task[t]
      left == SelectSeq(pages, LAMBDA q : q # me.page)
      remaining == CtxPages(me.ctx, left)
  IN /\ me.pc = "close_page"
     /\ closed' = closed \cup { me.page }
     /\ pages' = left
     /\ IF remaining # << >>
        THEN /\ session' = [ session EXCEPT !._page = remaining[Len(remaining)] ]
             /\ SetTask(t, [ me EXCEPT !.pc = "tab_attach",
                                       !.att = remaining[Len(remaining)],
                                       !.after = "snapshot" ])
        ELSE /\ SetTask(t, Finish(me, "Tab closed. No remaining tabs."))
             /\ UNCHANGED session
     /\ UNCHANGED << callVars, doc, _REGISTRY, launches, calls, lock, published >>

\* _take_snapshot: page.title() returned; _get_ax_tree(cdp) is awaited.  With
\* None for the page, page.url raises, in the snapshot of browser_act's
\* handler too
SnapTitle(t) ==
  /\ task[t].pc = "snap_title"
  /\ SetTask(t, IF task[t].tgt = None
                THEN Finish(task[t], "Error during '" \o task[t].action
                                       \o "': 'NoneType' object has no attribute 'url'")
                ELSE [ task[t] EXCEPT !.pc = "snap_tree" ])
  /\ UNCHANGED << callVars, session, pages, doc, closed, _REGISTRY, launches, calls, lock,
                  published >>

\* _REGISTRY[id(page)] = registry by coroutine t: the dict another coroutine
\* stored there is no longer the published one
Store(t, r, p) ==
  task' = [ u \in Tasks |->
              IF u = t THEN r
              ELSE IF task[u].tgt = p THEN [ task[u] EXCEPT !.stored = FALSE ]
              ELSE task[u] ]

\* the tree arrived: registry, body = _build_snapshot(nodes);
\* _REGISTRY[id(page)] = registry; with child frames the first
\* frame.evaluate of _discover_iframe_elements is awaited
SnapTree(t) ==
  LET me == task[t]
      nodes == IF me.tcdp # None /\ me.tcdp \notin closed /\ ~Hung
               THEN Docs[doc[me.tcdp]].nodes ELSE << >>
      frames == IF me.tgt \in closed THEN << MainFrame("") >> ELSE Docs[doc[me.tgt]].frames
  IN /\ me.pc = "snap_tree"
     /\ \E built \in { _build_snapshot(nodes).registry } :
          /\ _REGISTRY' = Put(_REGISTRY, me.tgt, built)
          /\ published' = Put(published, me.tgt, built)
          /\ Store(t, IF Len(frames) > 1
                      THEN [ me EXCEPT !.pc = "snap_frame", !.registry = built,
                                       !.stored = TRUE, !.sdoc = doc[me.tgt], !.fi = 1,
                                       !.ref = Cardinality(DOMAIN built),
                                       !.start_ref = Cardinality(DOMAIN built) ]
                      ELSE Finish(me, TaskResult(me)),
                   me.tgt)
     /\ UNCHANGED << callVars, session, pages, doc, closed, launches, calls, lock >>

\* frame.evaluate of frame fi returned: its elements are put into registry,
\* the dict itself; after the last frame _REGISTRY[id(page)] = registry and
\* the snapshot returns
SnapFrame(t) ==
  LET me == task[t]
      frames == Docs[me.sdoc].frames
      detached == me.tgt \in closed \/ doc[me.tgt] # me.sdoc \/ Hung
      frame == IF detached THEN Frame(frames[me.fi + 1].url, TRUE, << >>)
               ELSE frames[me.fi + 1]
  IN /\ me.pc = "snap_frame"
     /\ \E acc \in { iframe_frame([ registry |-> me.registry, lines |-> << >>,
                                    ref |-> me.ref ],
                                  frame, me.fi, me.start_ref) } :
          IF me.fi + 1 < Len(frames)
          THEN /\ SetTask(t, [ me EXCEPT !.registry = acc.registry, !.ref = acc.ref,
                                         !.fi = me.fi + 1 ])
               /\ _REGISTRY' = IF me.stored THEN Put(_REGISTRY, me.tgt, acc.registry)
                               ELSE _REGISTRY
               /\ UNCHANGED published
          ELSE /\ Store(t, Finish(me, TaskResult(me)), me.tgt)
               /\ _REGISTRY' = Put(_REGISTRY, me.tgt, acc.registry)
               /\ published' = Put(published, me.tgt, acc.registry)
     /\ UNCHANGED << callVars, session, pages, doc, closed, launches, calls, lock >>

TaskNext ==
  \/ \E t \in Tasks : TaskCall(t)
  \/ \E t \in Tasks : Acquire(t)
  \/ \E t \in Tasks : LaunchStop(t)
  \/ \E t \in Tasks : LaunchStart(t)
  \/ \E t \in Tasks : LaunchContext(t)
  \/ \E t \in Tasks : LaunchPage(t)
  \/ \E t \in Tasks : LaunchCdp(t)
  \/ \E t \in Tasks : Launched(t)
  \/ \E t \in Tasks : Probe(t)
  \/ \E t \in Tasks : Reattach(t)
  \/ \E t \in Tasks : Reattached(t)
  \/ \E t \in Tasks : TaskGoto(t)
  \/ \E t \in Tasks : TaskSettle(t)
  \/ \E t \in Tasks : TaskNewPage(t)
  \/ \E t \in Tasks : TabAttach(t)
  \/ \E t \in Tasks : TabEnable(t)
  \/ \E t \in Tasks : TabGoto(t)
  \/ \E t \in Tasks : TabSettle(t)
  \/ \E t \in Tasks : ClosePage(t)
  \/ \E t \in Tasks : SnapTitle(t)
  \/ \E t \in Tasks : SnapTree(t)
  \/ \E t \in Tasks : SnapFrame(t)

SpecTasks == Init /\ [][TaskNext]_vars

(***************************************************************************)
(* SpecClose: browser_act("close") at the same time as browser_act calls   *)
(* that go through get_page.  close_all takes no lock; each of its awaits  *)
(* (cdp.detach, context.close, playwright.stop) is a step of its own, made *)
(* on the object the field held when the call was made, and an exception   *)
(* of it is swallowed.  The other calls are snapshot calls, with the steps *)
(* of SpecTasks.  A session is identified with its page; that the session  *)
(* cls._cdp held for a page was detached is recorded in ended, until       *)
(* get_page attaches a new session to the page.                            *)
(***************************************************************************)
RaceCalls == { [ action |-> "snapshot", kw |-> << >> ] }
RaceCall(t) == TaskCallOf(t, RaceCalls)

\* close_all from "if cls._context:" on, up to its next await; without one
\* the fields are set to None and browser_act returns
CloseFromContext(t, me) ==
  IF session._context # None
  THEN /\ SetTask(t, [ me EXCEPT !.pc = "close_context", !.ctx = session._context ])
       /\ UNCHANGED session
  ELSE IF session._playwright # None
  THEN /\ SetTask(t, [ me EXCEPT !.pc = "close_stop", !.drv = session._playwright ])
       /\ UNCHANGED session
  ELSE /\ SetTask(t, Finish(me, "Browser closed."))
       /\ session' = NoSession

\* browser_act("close") is called: close_all runs to its first await
CloseCall(t) ==
  /\ task[t].pc = "idle"
  /\ calls < MaxCalls
  /\ calls' = calls + 1
  /\ LET me == [ IdleTask EXCEPT !.action = "close", !.warm = task[t].warm,
                                 !.tabbed = task[t].tabbed,
                                 !.page = task[t].page, !.cdp = task[t].cdp ]
     IN IF session._cdp # None
        THEN /\ SetTask(t, [ me EXCEPT !.pc = "close_detach", !.att = session._cdp ])
             /\ UNCHANGED session
        ELSE CloseFromContext(t, me)
  /\ UNCHANGED << callVars, pages, doc, closed, _REGISTRY, launches, lock, published >>

\* await cls._cdp.detach() returned
CloseDetach(t) ==
  /\ task[t].pc = "close_detach"
  /\ ended' = ended \cup { << "session", task[t].att >> }
  /\ CloseFromContext(t, task[t])
  /\ UNCHANGED << stillVars, pages, doc, closed, _REGISTRY, launches, calls, lock,
                  published >>

\* the pages of context c, the one launched last being the one that has any
PagesOf(c) == IF c = launches THEN Range(pages) ELSE {}

\* await cls._context.close() returned: the context and its pages are closed
CloseContext(t) ==
  LET me == task[t]
  IN /\ me.pc = "close_context"
     /\ ended' = ended \cup { << "context", me.ctx >> }
     /\ closed' = closed \cup PagesOf(me.ctx)
     /\ pages' = IF me.ctx = launches THEN << >> ELSE pages
     /\ IF session._playwright # None
        THEN /\ SetTask(t, [ me EXCEPT !.pc = "close_stop", !.drv = session._playwright ])
             /\ UNCHANGED session
        ELSE /\ SetTask(t, Finish(me, "Browser closed."))
             /\ session' = NoSession
     /\ UNCHANGED << stillVars, doc, _REGISTRY, launches, calls, lock, published >>

\* await cls._playwright.stop() returned: the driver's browser is gone;
\* every field is set to None and browser_act returns
CloseStop(t) ==
  LET me == task[t]
  IN /\ me.pc = "close_stop"
     /\ ended' = ended \cup { << "driver", me.drv >>, << "context", me.drv >> }
     /\ closed' = closed \cup PagesOf(me.drv)
     /\ session' = NoSession
     /\ SetTask(t, Finish(me, "Browser closed."))
     /\ UNCHANGED << stillVars, pages, doc, _REGISTRY, launches, calls, lock, published >>

CloseNext ==
  \/ \E t \in Tasks : RaceCall(t)
  \/ \E t \in Tasks : CloseCall(t)
  \/ \E t \in Tasks : CloseDetach(t)
  \/ \E t \in Tasks : CloseContext(t)
  \/ \E t \in Tasks : CloseStop(t)
  \/ \E t \in Tasks : Acquire(t)
  \/ \E t \in Tasks : LaunchStop(t)
  \/ \E t \in Tasks : LaunchStart(t)
  \/ \E t \in Tasks : LaunchContext(t)
  \/ \E t \in Tasks : LaunchPage(t)
  \/ \E t \in Tasks : LaunchCdp(t)
  \/ \E t \in Tasks : Launched(t)
  \/ \E t \in Tasks : Probe(t)
  \/ \E t \in Tasks : Reattach(t)
  \/ \E t \in Tasks : Reattached(t)
  \/ \E t \in Tasks : SnapTitle(t)
  \/ \E t \in Tasks : SnapTree(t)

SpecClose == Init /\ [][CloseNext]_vars

(***************************************************************************)
(* SpecHang: SpecTasks with a browser that may stop answering.  A          *)
(* coroutine is at the await its pc names; the awaits of UnboundedAwaits   *)
(* are made without a timeout (page.title(), cdp.send, new_cdp_session,    *)
(* new_page, page.close), the others under asyncio.wait_for or with a      *)
(* timeout argument.  The event loop runs every coroutine that can go on.  *)
(***************************************************************************)
UnboundedAwaits ==
  { "reattach", "reattached", "new_page", "tab_attach", "tab_enable", "close_page",
    "snap_title" }

Blocked(t) == Hung /\ task[t].pc \in UnboundedAwaits

Hang ==
  /\ session._context # None
  /\ ~Hung
  /\ hung' = hung \cup { session._context }
  /\ UNCHANGED << snap_pv, snap_out, key_in, key_out, session, pages, doc, closed,
                  _REGISTRY, held, current, launches, calls, call, last, lock, task,
                  published, ended, v7 >>

\* the next step of coroutine t's call
TaskStep(t) ==
  \/ Acquire(t) \/ LaunchStop(t) \/ LaunchStart(t) \/ LaunchContext(t)
  \/ LaunchPage(t) \/ LaunchCdp(t) \/ Launched(t) \/ Probe(t) \/ Reattach(t)
  \/ Reattached(t) \/ TaskGoto(t) \/ TaskSettle(t) \/ TaskNewPage(t)
  \/ TabAttach(t) \/ TabEnable(t) \/ TabGoto(t) \/ TabSettle(t) \/ ClosePage(t)
  \/ SnapTitle(t) \/ SnapTree(t) \/ SnapFrame(t)

HangStep(t) == ~Blocked(t) /\ TaskStep(t)

HangNext ==
  \/ \E t \in Tasks : TaskCall(t)
  \/ \E t \in Tasks : HangStep(t)
  \/ Hang

SpecHang == Init /\ [][HangNext]_vars /\ \A t \in Tasks : WF_vars(HangStep(t))

(***************************************************************************)
(* Claims about the snapshot builder (checked under SpecSnap)              *)
(***************************************************************************)
RegistrySize(registry) == Cardinality(DOMAIN registry)

\* C5: after every snapshot the registry's keys are exactly 1..n, n the
\* number of registered elements, for the registry stored after the tree
\* walk or flat fallback and for the one left after iframe discovery.
C5_RefsContiguous ==
  snap_out.done =>
    /\ DOMAIN snap_out.first_registry = 1..RegistrySize(snap_out.first_registry)
    /\ DOMAIN snap_out.registry = 1..RegistrySize(snap_out.registry)

\* a snapshot whose registry holds main-frame and iframe elements
C5_Witness ==
  /\ snap_out.done
  /\ \E r \in DOMAIN snap_out.registry : snap_out.registry[r].frame_index = 0
  /\ \E r \in DOMAIN snap_out.registry : snap_out.registry[r].frame_index > 0

\* C6: the registry of one snapshot never holds more than _MAX_ELEMENTS
\* elements, main-frame and iframe elements counted together.
C6_ElementCap ==
  snap_out.done => RegistrySize(snap_out.registry) <= _MAX_ELEMENTS

\* C7: the characters of the lines rendered into the snapshot body never
\* exceed _MAX_SNAPSHOT_CHARS.
C7_CharCap ==
  snap_out.done => SumLen(snap_out.body_lines) <= _MAX_SNAPSHOT_CHARS

(***************************************************************************)
(* Claims about browser_act (checked under Spec)                           *)
(***************************************************************************)
StartsWith(s, prefix) ==
  Len(s) >= Len(prefix) /\ SubSeq(s, 1, Len(prefix)) = prefix
EndsWith(s, suffix) ==
  Len(s) >= Len(suffix) /\ SubSeq(s, Len(s) - Len(suffix) + 1, Len(s)) = suffix

RefActions == { "click", "fill", "type", "hover", "select_option", "upload_file" }
\* the call got a page from get_page and went on to _dispatch
Dispatched == last.action # "" /\ last.action # "close" /\ last.page # None
RegistryOf(reg, p) == IF p \in DOMAIN reg THEN reg[p] ELSE EmptyRegistry

\* C1: every browser_act call, whatever the action name, the arguments
\* present and the browser calls that fail, returns a non-empty string and
\* lets no exception out.
C1_NeverRaises ==
  last.action # "" => ~last.raised /\ last.result # ""

\* a call whose dispatch raised and whose handler returned the error
C1_Witness ==
  /\ last.faults # {}
  /\ StartsWith(last.result, "Error during '" \o last.action \o "': ")

\* C2: every call other than close ends its result with a snapshot rebuilt
\* during that call, on success and on every error path.
C2_EndsWithSnapshot ==
  (last.action # "" /\ last.action # "close") =>
    /\ last.snap # << >>
    /\ EndsWith(last.result, last.snap[1])

SameElement(e1, e2) ==
  /\ e1.backend_node_id = e2.backend_node_id
  /\ e1.frame_index = e2.frame_index
  /\ e1.selector = e2.selector

\* C3: a ref issued by one snapshot of the page and used after a later
\* action rebuilt the page's registry is never acted upon as a different
\* element than the one it named in the snapshot that issued it.
C3_StaleRefSameElement ==
  (/\ Dispatched
   /\ last.action \in RefActions
   /\ last.acted # << >>
   /\ last.issued.pid = last.page
   /\ last.kw.ref \in DOMAIN last.issued.registry) =>
    SameElement(last.issued.registry[last.kw.ref], last.acted[1])

\* the other arguments the action needs are present
RefCallComplete ==
  /\ Has(last.kw, "ref")
  /\ last.action \in { "fill", "type" } => Has(last.kw, "text")
  /\ last.action = "upload_file" => Str(last.kw, "filepath") # ""

RefUnknown ==
  /\ Dispatched
  /\ last.action \in RefActions
  /\ RefCallComplete
  /\ last.kw.ref \notin DOMAIN RegistryOf(last.reg_before, last.page)

C8_NavigateRebuilds ==
  (Dispatched /\ last.action = "navigate" /\ Str(last.kw, "url") # "") =>
    /\ last.snap # << >>
    /\ last.snap_page = last.page

\* C9: with the page unchanged since its registry was built, snapshot stores
\* an identical registry for it and get_text leaves _REGISTRY as it was.
C9_SnapshotGetTextIdempotent ==
  /\ (/\ Dispatched
      /\ last.action = "snapshot"
      /\ last.page \in last.current_before) =>
       /\ last.page \in DOMAIN _REGISTRY
       /\ _REGISTRY[last.page] = RegistryOf(last.reg_before, last.page)
  /\ (/\ Dispatched
      /\ last.action = "get_text"
      /\ last.page \in last.current_before) =>
       _REGISTRY = last.reg_before

MissingParam ==
  \/ last.action \in { "navigate", "new_tab" } /\ Str(last.kw, "url") = ""
  \/ last.action \in RefActions /\ ~Has(last.kw, "ref")
  \/ last.action \in { "fill", "type" } /\ ~Has(last.kw, "text")
  \/ last.action = "press" /\ Str(last.kw, "key") = ""
  \/ last.action = "upload_file" /\ Str(last.kw, "filepath") = ""
  \/ last.action = "select_option" /\ Str(last.kw, "value") = "" /\ Str(last.kw, "text") = ""
  \/ last.action = "switch_tab" /\ ~Has(last.kw, "index")

\* C10: a call without a parameter its action needs returns an error string
\* before any page interaction or change of the active tab.
C10_MissingParamIsError ==
  (Dispatched /\ MissingParam) =>
    /\ StartsWith(last.result, "Error: ")
    /\ last.interaction = << >>
    /\ last.page_after = last.page

\* the health check of the call's get_page failed on an active page that was
\* open: the probe was get_page's first browser call and a new session was
\* asked for
ProbeFailedOnOpenPage ==
  /\ last.action \notin { "", "close" }
  /\ last.session_before._page # None
  /\ Len(last.acquire_ops) >= 2
  /\ last.acquire_ops[1] = "Accessibility.getFullAXTree"
  /\ last.acquire_ops[2] = "new_cdp_session"
Relaunched == "async_playwright.start" \in Range(last.acquire_ops)
OnlySessionReplaced ==
  /\ ~Relaunched
  /\ last.acquired._page = last.session_before._page
  /\ last.acquired._context = last.session_before._context
  /\ last.acquired._playwright = last.session_before._playwright
  /\ last.acquired._cdp = last.acquired._page

\* C14 as stated: when the health check fails while the active page is open,
\* only the protocol session is replaced (same page, context and driver, no
\* _launch)
C14_OnlySessionReplaced == ProbeFailedOnOpenPage => OnlySessionReplaced

\* C14, amended: when the health check fails while the active page is open,
\* only the protocol session is replaced if a new session can be opened on
\* the page, and _launch runs if it cannot
C14_SessionReplacedOrRelaunched ==
  ProbeFailedOnOpenPage =>
    IF "reattach" \in last.faults THEN Relaunched ELSE OnlySessionReplaced

\* the probe failed on an open page and the call went on with the same page
\* and a new session
C14_Witness ==
  /\ ProbeFailedOnOpenPage
  /\ last.faults = { "probe" }
  /\ last.page = last.session_before._page
  /\ last.acquire_ops = << "Accessibility.getFullAXTree", "new_cdp_session",
                           "Accessibility.enable" >>

\* the teardown steps close_all has to attempt on the session it finds
TeardownSteps(s) ==
  (IF s._cdp # None THEN << "cdp.detach" >> ELSE << >>)
  \o (IF s._context # None THEN << "context.close" >> ELSE << >>)
  \o (IF s._browser # None THEN << "browser.close" >> ELSE << >>)
  \o (IF s._playwright # None THEN << "playwright.stop" >> ELSE << >>)

\* C15: close attempts the teardown steps in order whichever of them raise,
\* no exception leaves it, and the five session fields are None afterwards
C15_CloseAllTearsDown ==
  last.action = "close" =>
    /\ last.ops = TeardownSteps(last.session_before)
    /\ ~last.raised
    /\ last.result = "Browser closed."
    /\ session = NoSession

\* a close of a live session in which every step raised
C15_Witness ==
  /\ last.action = "close"
  /\ last.faults = { "detach", "context_close", "stop" }
  /\ last.session_before._cdp # None
  /\ last.session_before._context # None
  /\ last.session_before._playwright # None
  /\ Len(last.ops) = 3

\* C16: after any action but close returns, the session's active page is an
\* open page of the context
C16_ActivePageOpen ==
  (last.action \notin { "", "close" } /\ session._page # None) =>
    /\ session._page \notin closed
    /\ session._page \in Range(pages)

MutatingActions ==
  { "navigate", "click", "fill", "type", "press", "select_option", "upload_file",
    "back", "forward", "new_tab", "switch_tab", "close_tab" }

\* C18: the snapshot a mutating action returns is taken of the page that is
\* the session's active page when the action returns, and the registry it
\* built is the one stored for that page; also on the error path
C18_SnapshotOfActivePage ==
  (last.action \in MutatingActions /\ last.snap # << >>) =>
    /\ last.snap_page = session._page
    /\ session._page \in DOMAIN _REGISTRY

\* the call looked up a main-frame element of the active page's registry
OnMainFrame(actions) ==
  /\ Dispatched
  /\ last.action \in actions
  /\ RefCallComplete
  /\ last.kw.ref \in DOMAIN RegistryOf(last.reg_before, last.page)
  /\ ~IsFrameElem(RegistryOf(last.reg_before, last.page)[last.kw.ref])

\* the browser commands of the interaction, without the sleeps
Events == SelectSeq(last.interaction, LAMBDA op : op # "sleep")
Sent(method) == \E i \in DOMAIN Events : Events[i] = method
FirstOf(method) == CHOOSE i \in DOMAIN Events : Events[i] = method /\
                     \A j \in DOMAIN Events : Events[j] = method => i <= j
IsPrefix(s, t) == Len(s) <= Len(t) /\ SubSeq(t, 1, Len(s)) = s

CoordinateTried == Sent("DOM.getBoxModel")
ScriptTried == Sent("DOM.resolveNode")
FocusTried == Sent("DOM.focus")
ClickedBy(method) == StartsWith(last.result, "Clicked ") /\
                       \E i \in 1..Len(last.result) :
                         StartsWith(SubSeq(last.result, i, Len(last.result)),
                                    "(" \o method \o ")\n")

\* C19: for a main-frame element, click tries coordinate click, script
\* click and focus plus Enter in that order, runs no later strategy after
\* one succeeded, and returns an error only when all three were tried and
\* failed.
C19_ClickStrategiesInOrder ==
  OnMainFrame({ "click" }) =>
    /\ CoordinateTried
    /\ ScriptTried => FirstOf("DOM.getBoxModel") < FirstOf("DOM.resolveNode")
    /\ FocusTried => ScriptTried /\ FirstOf("DOM.resolveNode") < FirstOf("DOM.focus")
    /\ ClickedBy("cdp-click") => ~ScriptTried /\ ~FocusTried
    /\ ClickedBy("js-click") => ~FocusTried
    /\ StartsWith(last.result, "Error") =>
         /\ ScriptTried /\ FocusTried
         /\ ~Sent("Input.dispatchMouseEvent")

MouseEvents == << "Input.dispatchMouseEvent", "Input.dispatchMouseEvent",
                  "Input.dispatchMouseEvent" >>
KeyEvents(key) == << "Input.dispatchKeyEvent:" \o key, "Input.dispatchKeyEvent:" \o key >>
Geometry == << "DOM.scrollIntoViewIfNeeded", "DOM.getBoxModel" >>
\* what the action sends once the element has the focus
InputEvents ==
  IF last.action = "fill"
  THEN KeyEvents("Control+a") \o KeyEvents("Delete") \o << "Input.insertText" >>
  ELSE << "Input.insertText" >>
InputDone ==
  StartsWith(last.result, IF last.action = "fill" THEN "Filled " ELSE "Typed ")

\* C20: fill and type on a main-frame element first click the element, or
\* focus it when it has no geometry; then fill sends select-all, delete and
\* the text insertion in that order and type only the text insertion; an
\* element that can be neither clicked nor focused gets no key or text event
\* and the call returns an error.
C20_FocusThenInput ==
  OnMainFrame({ "fill", "type" }) =>
    /\ \/ IsPrefix(Events, Geometry \o MouseEvents \o InputEvents)
       \/ IsPrefix(Events, Geometry \o << "DOM.focus" >> \o InputEvents)
    /\ InputDone => Len(Events) = Len(Geometry) + Len(InputEvents)
                                  + (IF Sent("DOM.focus") THEN 1 ELSE 3)
    /\ { "box", "focus" } \subseteq last.faults =>
         /\ Events = Geometry \o << "DOM.focus" >>
         /\ StartsWith(last.result,
                       "Error: could not focus [" \o ToString(last.kw.ref) \o "]")

\* a fill of an element without geometry that was focused instead
C20_Witness ==
  /\ OnMainFrame({ "fill" })
  /\ InputDone
  /\ Sent("DOM.focus")

\* the call looked up a frame-scoped element of the active page's registry
OnChildFrame(actions) ==
  /\ Dispatched
  /\ last.action \in actions
  /\ RefCallComplete
  /\ last.kw.ref \in DOMAIN RegistryOf(last.reg_before, last.page)
  /\ IsFrameElem(RegistryOf(last.reg_before, last.page)[last.kw.ref])

IsLoadStateWait(op) == StartsWith(op, "wait_for_load_state:")
IsLocatorOp(op) == StartsWith(op, "locator.")
\* the locator operations of each action, in order
LocatorOps ==
  CASE last.action = "click" -> << "locator.scroll_into_view_if_needed", "locator.click" >>
    [] last.action = "fill" -> << "locator.click", "locator.fill" >>
    [] last.action = "type" -> << "locator.click", "locator.type" >>
    [] OTHER -> << "locator.hover" >>
\* the frame or its element is gone, or the locator operation fails
LocatorFails ==
  \/ "locator" \in last.faults
  \/ last.acted = << >>

\* C31: click, fill, type and hover on a frame-scoped element issue only
\* the frame locator's operations (then sleeps and, for click, the settle
\* waits): no pointer event, script click, focus or key event; a failing
\* locator ends the action with its "could not ..." error string.
C31_FrameElementsUseLocator ==
  OnChildFrame({ "click", "fill", "type", "hover" }) =>
    /\ ~last.raised
    /\ IsPrefix(SelectSeq(Events, IsLocatorOp), LocatorOps)
    /\ \A i \in DOMAIN Events : IsLocatorOp(Events[i]) \/ IsLoadStateWait(Events[i])
    /\ LocatorFails <=> StartsWith(last.result, "Error: could not ")
    /\ LocatorFails => \A i \in DOMAIN Events : IsLocatorOp(Events[i])
    /\ ~LocatorFails => SelectSeq(Events, IsLocatorOp) = LocatorOps

\* a click on a frame element whose locator times out
C31_Witness ==
  /\ OnChildFrame({ "click" })
  /\ "locator" \in last.faults
  /\ StartsWith(last.result, "Error: could not click [")

\* a fill of a frame element whose frame the page no longer has
C31_WitnessFrameGone ==
  /\ OnChildFrame({ "fill", "type", "hover" })
  /\ last.faults = {}
  /\ last.acted = << >>

Interactions == { "click", "fill", "type", "hover", "select_option", "upload_file" }
\* the interaction was delivered to an element and the snapshot followed
Interacted ==
  /\ Dispatched
  /\ last.action \in Interactions
  /\ last.acted # << >>
  /\ last.snap # << >>
  /\ ~StartsWith(last.result, "Error")
SettleWaits == SelectSeq(last.interaction, IsLoadStateWait)
ShortSettle == << "wait_for_load_state:networkidle" >>
LongSettle == << "wait_for_load_state:domcontentloaded", "wait_for_load_state:networkidle" >>

\* C33: every interaction that was delivered is followed, before the
\* snapshot, by a settle: the short one (network idle, bounded) or, after a
\* change of URL, the long one (document loaded, then the short one); the
\* interaction ends with the settle's sleep.
C33_SettleAfterInteraction ==
  Interacted =>
    /\ SettleWaits \in { ShortSettle, LongSettle }
    /\ last.interaction[Len(last.interaction)] = "sleep"
    /\ \E i \in DOMAIN last.interaction :
         /\ IsLoadStateWait(last.interaction[i])
         /\ \A j \in DOMAIN last.interaction :
              ~IsLoadStateWait(last.interaction[j]) /\ last.interaction[j] # "sleep" => j < i

\* what does hold: click settles, and takes the long settle exactly when
\* the click loaded another URL (the link of document b)
C33_ClickSettles ==
  Interacted /\ last.action = "click" =>
    /\ SettleWaits \in { ShortSettle, LongSettle }
    /\ SettleWaits = LongSettle <=> last.acted[1].backend_node_id = 21

\* C34: between actions the protocol session the session manager holds is
\* attached to the active page, whatever the actions before were and also
\* when a tab action failed to create the new protocol session after it had
\* made another page the active one
C34_SessionAttachedToActivePage ==
  session._page # None => session._cdp = session._page

\* the tab actions reassign the active page before they create its protocol
\* session: the two differ exactly after a tab action in which that failed,
\* or after a later action that found them different and left them so
C34_DetachedOnlyAfterFailedAttach ==
  (last.action # "" /\ session._page # None /\ session._cdp # session._page) =>
    \/ /\ last.action \in { "new_tab", "switch_tab", "close_tab" }
       /\ "new_cdp_session" \in last.faults
    \/ last.session_before._cdp # last.session_before._page

\* the call's get_page launched a browser: the page it handed to _dispatch
\* is a new page object, of which no snapshot has been taken
OnLaunchedPage ==
  /\ Dispatched
  /\ last.action \in RefActions
  /\ RefCallComplete
  /\ \E i \in DOMAIN last.acquire_ops : last.acquire_ops[i] = "launch_persistent_context"

\* C37: a registry is consulted only for the page whose snapshot built it:
\* the entry a closed page left in _REGISTRY is not found under the id of a
\* later page, so a ref action on a page just launched, which has no
\* snapshot yet, reports that the ref was not found and acts on no element
C37_RegistryOnlyForItsPage ==
  OnLaunchedPage =>
    /\ StartsWith(last.result, "Error: ref [" \o ToString(last.kw.ref) \o "] not found.")
    /\ last.acted = << >>

\* a ref action on a page just launched does not find the ref when the
\* page's id is not one a registry is stored under
C37_NewIdRefNotFound ==
  (OnLaunchedPage /\ last.page \notin DOMAIN last.reg_before) =>
    /\ StartsWith(last.result, "Error: ref [" \o ToString(last.kw.ref) \o "] not found.")
    /\ last.acted = << >>

\* select_option ran its in-page function on the element it looked up
SelectRan ==
  /\ Dispatched
  /\ last.action = "select_option"
  /\ last.acted # << >>
\* the options of that element
SelectOptions == Options(doc[last.cdp], last.acted[1].backend_node_id)
\* only text was given, and it is the text of none of the element's options
TextMatchesNone ==
  /\ SelectRan
  /\ Str(last.kw, "value") = ""
  /\ Str(last.kw, "text") # ""
  /\ \A i \in DOMAIN SelectOptions : Strip(SelectOptions[i].text) # last.kw.text

\* C38: select_option returns "Selected option in [ref]" only when the
\* element's value was set and a change event dispatched; with a text that
\* none of the element's options has, it returns an error
C38_SelectReportsOutcome ==
  /\ (Dispatched /\ last.action = "select_option"
      /\ StartsWith(last.result, "Selected option in ")) =>
       /\ last.selected # << >>
       /\ last.selected[1] # ""
  /\ TextMatchesNone => StartsWith(last.result, "Error")

\* with a text that an option of the element has, or a value that one has,
\* the element has the option's value afterwards and the success message is
\* returned
C38_MatchingOptionSelected ==
  (/\ SelectRan
   /\ \E i \in DOMAIN SelectOptions :
        IF Str(last.kw, "value") # "" THEN SelectOptions[i].value = last.kw.value
        ELSE Strip(SelectOptions[i].text) = Str(last.kw, "text")) =>
    /\ last.selected # << >>
    /\ \E i \in DOMAIN SelectOptions : SelectOptions[i].value = last.selected[1]
    /\ StartsWith(last.result, "Selected option in [" \o ToString(last.kw.ref) \o "]")

\* a text that none of the options of a select has
C38_WitnessNoSuchOption ==
  /\ TextMatchesNone
  /\ SelectOptions # << >>
  /\ last.selected = << >>
  /\ StartsWith(last.result, "Selected option in ")
\* a text that an option has but for the blanks around it
C38_WitnessOptionByText ==
  /\ SelectRan
  /\ Str(last.kw, "text") = "Large"
  /\ last.selected = << "xl" >>

\* the call began when the session's active page was a closed page, as
\* close_tab leaves it after closing the last open tab
BeganOnClosedPage == last.action \notin { "", "close" } /\ last.closed_before
LaunchedFirst ==
  /\ last.acquire_ops # << >>
  /\ last.acquire_ops[1] \in { "playwright.stop", "async_playwright.start" }
LaunchCount ==
  Cardinality({ k \in DOMAIN last.acquire_ops :
                  last.acquire_ops[k] = "async_playwright.start" })
\* get_page returned the first page of a context launched in the call, with
\* the session attached to it
AcquiredNewPage ==
  /\ "launch_persistent_context" \in Range(last.acquire_ops)
  /\ last.page # None
  /\ last.page = last.acquired._page
  /\ last.cdp = last.page
  /\ last.acquired._context = launches
  /\ last.acquired._context # last.session_before._context
  /\ LaunchCount = 1 => last.page # last.session_before._page
\* the snapshot returned, if there is one, is of an open page of the new
\* context
SnapshotOfNewContext ==
  last.snap # << >> =>
    /\ last.snap_page \in Range(pages)
    /\ last.snap_page \notin closed
    /\ session._context = launches
    /\ EndsWith(last.result, last.snap[1])

C39_WitnessLaunchFailed ==
  /\ BeganOnClosedPage
  /\ "launch" \in last.faults
  /\ session._page \in closed

LaunchOps == { "async_playwright.start", "launch_persistent_context", "new_page",
               "new_cdp_session", "Accessibility.enable" }

\* C25: close never acquires or launches a session: nothing of get_page or
\* _launch runs, the session fields are all None afterwards and the
\* registries are left alone; without a session (before any launch, or
\* after a close) it calls nothing at all and returns the same confirmation.
C25_CloseNeverAcquires ==
  last.action = "close" =>
    /\ last.acquire_ops = << >>
    /\ last.page = None
    /\ \A i \in DOMAIN last.ops : last.ops[i] \notin LaunchOps
    /\ session = NoSession
    /\ _REGISTRY = last.reg_before
    /\ last.result = "Browser closed."
    /\ last.session_before = NoSession => last.ops = << >>

\* a close without a session, after a browser was launched and closed
C25_Witness ==
  /\ last.action = "close"
  /\ last.session_before = NoSession
  /\ launches > 0

(***************************************************************************)
(* Claims about a failed tree fetch (checked under SpecSnap)               *)
(***************************************************************************)
AxFetchFailed == snap_out.done /\ snap_pv.ax_fails
EmptyBody == "(empty page - no content detected)"

NoElementsFooter == "(0 interactive elements. Use ref=N to interact.)"

\* C26: a snapshot that registered no element returns a non-empty text that
\* says so: in the staged engine the header, then the content lines (or the
\* empty-page line when there are none), then the footer counting 0
\* interactive elements; in the v7 engine the header and the line
\* "(no interactive elements found)".
C26_NoElementsIsSaid ==
  /\ snap_out.done /\ snap_out.registry = EmptyRegistry =>
        /\ snap_out.text # ""
        /\ snap_out.text =
             SnapshotHeader(snap_pv) \o "\n\n"
               \o (IF snap_out.body_lines = << >> THEN EmptyBody
                   ELSE JoinLines(snap_out.body_lines))
               \o "\n" \o NoElementsFooter
  /\ snap_out.done /\ ~snap_out.v7.raised /\ snap_out.v7.registry = EmptyRegistry =>
        snap_out.v7.text =
          "URL: " \o snap_pv.url \o "\nTitle: " \o snap_pv.title \o "\n\n" \o NoElementsLine

\* no element in either engine, on a page that has content lines
C26_Witness ==
  /\ snap_out.done
  /\ snap_out.registry = EmptyRegistry
  /\ snap_out.body_lines # << >>
  /\ ~snap_out.v7.raised
  /\ snap_out.v7.registry = EmptyRegistry

\* no element and no content line either
C26_WitnessEmptyPage ==
  /\ snap_out.done
  /\ snap_out.registry = EmptyRegistry
  /\ snap_out.body_lines = << >>
  /\ ~snap_pv.ax_fails

(***************************************************************************)
(* Claims about the tree walk and the flat fallback (SpecSnap)             *)
(***************************************************************************)
WalkOut == snap_out.walk_out
WalkIndex == id_to_node(snap_pv.nodes)
Examined(id) == \E k \in DOMAIN WalkOut.visits : WalkOut.visits[k] = id
\* the walk gave this node a ref
WalkRegistered(node) ==
  /\ node.backendDOMNodeId # 0
  /\ \E r \in DOMAIN WalkOut.registry :
       WalkOut.registry[r].backend_node_id = node.backendDOMNodeId
\* a cap ended the walk
WalkCapped ==
  \/ RegistrySize(WalkOut.registry) >= _MAX_ELEMENTS
  \/ SumLen(WalkOut.lines) >= _MAX_SNAPSHOT_CHARS
ChildrenOf(node) == Range(node.childIds) \cap DOMAIN WalkIndex
ExaminedNodes == { WalkIndex[WalkOut.visits[k]] : k \in DOMAIN WalkOut.visits }

\* C28: for every node the walk examines, its children are walked exactly
\* when the node got no ref: the children of a registered node are not
\* examined, those of every other node (ignored, unlabeled button or link,
\* content, anything else) are, unless a cap ended the walk; ignored nodes
\* get neither a ref nor a line.
C28_WalkStopsAtRegisteredNodes ==
  snap_out.done /\ ~snap_pv.ax_fails =>
    /\ \A node \in ExaminedNodes :
         /\ WalkRegistered(node) => \A c \in ChildrenOf(node) : ~Examined(c)
         /\ ~WalkRegistered(node) => \A c \in ChildrenOf(node) : Examined(c) \/ WalkCapped
         /\ node.ignored => ~WalkRegistered(node)
    /\ Len(WalkOut.lines)
         <= Cardinality({ k \in DOMAIN WalkOut.visits :
                            ~WalkIndex[WalkOut.visits[k]].ignored })
    /\ RegistrySize(WalkOut.registry) <= Len(WalkOut.lines)

\* the walk registered a node that has a child, and walked the child of an
\* ignored node
C28_Witness ==
  /\ snap_out.done
  /\ \E node \in ExaminedNodes : WalkRegistered(node) /\ ChildrenOf(node) # {}
C28_WitnessIgnored ==
  /\ snap_out.done
  /\ \E node \in ExaminedNodes :
       /\ node.ignored
       /\ \E c \in ChildrenOf(node) : Examined(c) /\ WalkRegistered(WalkIndex[c])

\* C29: the flat scan runs only after a walk that rendered no line, and then
\* from an empty registry (its first element gets ref 1, no node is in the
\* registry twice); after a walk that rendered a line the registry and the
\* body lines are the walk's.
C29_FallbackOnlyAfterEmptyWalk ==
  snap_out.done =>
    /\ snap_out.fallback => WalkOut.lines = << >> /\ WalkOut.registry = EmptyRegistry
    /\ WalkOut.lines # << >> =>
         /\ ~snap_out.fallback
         /\ snap_out.first_registry = WalkOut.registry
         /\ snap_out.body_lines = WalkOut.lines
    /\ snap_out.first_registry # EmptyRegistry => 1 \in DOMAIN snap_out.first_registry
    /\ snap_out.fallback =>
         \A r1, r2 \in DOMAIN snap_out.first_registry :
           snap_out.first_registry[r1].backend_node_id
             = snap_out.first_registry[r2].backend_node_id => r1 = r2

\* the flat scan ran and registered an element
C29_Witness ==
  /\ snap_out.done
  /\ snap_out.fallback
  /\ snap_out.first_registry # EmptyRegistry

MainFrameElement(elem) ==
  elem.frame_index = 0 /\ elem.backend_node_id # 0 /\ elem.selector = ""
FrameScopedElement(elem) ==
  elem.frame_index >= 1 /\ elem.selector # "" /\ elem.backend_node_id = 0

\* C30: every element of a registry is a main-frame element (frame index 0,
\* a backend node id, no selector) or a frame-scoped element (frame index
\* of 1 or more, a selector, backend node id 0).
C30_HandleOrSelector ==
  snap_out.done =>
    \A r \in DOMAIN snap_out.registry :
      \/ MainFrameElement(snap_out.registry[r])
      \/ FrameScopedElement(snap_out.registry[r])

\* a registry with an element of each kind, the frame element after the
\* main-frame ones
C30_Witness ==
  /\ snap_out.done
  /\ \E r1, r2 \in DOMAIN snap_out.registry :
       /\ r1 < r2
       /\ MainFrameElement(snap_out.registry[r1])
       /\ FrameScopedElement(snap_out.registry[r2])

(***************************************************************************)
(* Claims about close at the same time as get_page (SpecClose)             *)
(***************************************************************************)
\* no call is under way
Quiet == \A t \in Tasks : task[t].pc = "idle"
DriverRuns(d) == << "driver", d >> \notin ended
\* every field is None and no driver that was started is still running
TornDown ==
  /\ session = NoSession
  /\ \A d \in 1..launches : ~DriverRuns(d)
\* the fields are those of the driver started last, which runs with its
\* context and page open, and no other driver runs
Live ==
  /\ session._playwright = launches
  /\ session._context = launches
  /\ DriverRuns(launches)
  /\ << "context", launches >> \notin ended
  /\ session._page \in Range(pages) \ closed
  /\ session._cdp = session._page
  /\ \A d \in 1..(launches - 1) : ~DriverRuns(d)

\* C36: with close calls and get_page calls at the same time, what is left
\* when the calls have returned is a session that is torn down as a whole
\* (every field None, nothing left running) or live as a whole: close has
\* not stopped what get_page launched meanwhile, nor cleared the fields of a
\* session it did not tear down
C36_CloseAllOrNothing == Quiet => TornDown \/ Live

\* C36, its last part: the page get_page returns to browser_act is a page,
\* and not one that is closed
C36_GetPageReturnsLivePage ==
  [][ \A t \in Tasks :
        (task[t].pc # "snap_title" /\ task'[t].pc = "snap_title") =>
          /\ task'[t].tgt # None
          /\ task'[t].tgt \notin closed' ]_vars

(***************************************************************************)
(* Claims about the snapshot text (SpecSnap)                               *)
(***************************************************************************)
\* the places in the text where a line starts (0-based: after a newline)
LineStarts(text) == { 0 } \cup { i \in 1..Len(text) : SubSeq(text, i, i) = "\n" }
\* the first characters of the line that starts at c, leading blanks removed
LineHead(text, c) ==
  LET chunk == SubSeq(text, c + 1, Min(c + 24, Len(text)))
  IN SubSeq(chunk, FirstNonBlank(chunk, 1), Len(chunk))

DigitValue(ch) ==
  IF \E i \in DOMAIN Digits : Digits[i] = ch
  THEN (CHOOSE i \in DOMAIN Digits : Digits[i] = ch) - 1
  ELSE -1
\* int(s) of the label's three characters f"{ref:>3}", 0 when they are no
\* right-aligned number
LabelNumber(s) ==
  LET a == SubSeq(s, 1, 1)
      b == SubSeq(s, 2, 2)
      c == SubSeq(s, 3, 3)
  IN IF DigitValue(c) < 0 THEN 0
     ELSE IF a = " " /\ b = " " THEN DigitValue(c)
     ELSE IF a = " " /\ DigitValue(b) > 0 THEN 10 * DigitValue(b) + DigitValue(c)
     ELSE IF DigitValue(a) > 0 /\ DigitValue(b) >= 0
     THEN 100 * DigitValue(a) + 10 * DigitValue(b) + DigitValue(c)
     ELSE 0
\* the ref a line shows at its start as "[  N] ", 0 when it shows none
LineRef(head) ==
  IF Len(head) >= 6 /\ SubSeq(head, 1, 1) = "[" /\ SubSeq(head, 5, 6) = "] "
  THEN LabelNumber(SubSeq(head, 2, 4))
  ELSE 0
\* the numbered lines of the text: where each starts and the ref it shows
NumberedLines(text) ==
  { ln \in { << c, LineRef(LineHead(text, c)) >> : c \in LineStarts(text) } : ln[2] # 0 }

\* the node (its backend id) that the walk or the flat scan registered as ref
RegisteredNode(ref) == snap_out.first_registry[ref].backend_node_id
NoNodeRegisteredTwice ==
  \A r1, r2 \in DOMAIN snap_out.first_registry :
    RegisteredNode(r1) = RegisteredNode(r2) => r1 = r2

\* C35: _build_snapshot returns for every finite node list, also one whose
\* childIds form a cycle below a root, name a missing node or list a node
\* under two parents, and no node is registered more than once
C35_EachNodeRegisteredOnce ==
  (snap_out.done /\ snap_pv.nodes \in MalformedTrees) => NoNodeRegisteredTwice

\* on a list in which every node is listed under at most one parent, the
\* walk examines no node twice and no node is registered twice
C35_TreeRegisteredOnce ==
  (snap_out.done /\ snap_pv.nodes \in EnumTrees) =>
    /\ \A i, j \in DOMAIN WalkOut.visits :
         WalkOut.visits[i] = WalkOut.visits[j] => i = j
    /\ NoNodeRegisteredTwice

\* C32: the footer of a snapshot counts the elements of the registry stored
\* for the page, every ref of the registry stands at the start of exactly
\* one line of the text, and every such numbered line shows a ref of the
\* registry.
C32_TextMatchesRegistry ==
  snap_out.done =>
    LET numbered == NumberedLines(snap_out.text)
    IN /\ EndsWith(snap_out.text, SnapshotFooter(RegistrySize(snap_out.registry)))
       /\ \A r \in DOMAIN snap_out.registry :
            Cardinality({ ln \in numbered : ln[2] = r }) = 1
       /\ \A ln \in numbered : ln[2] \in DOMAIN snap_out.registry

\* what does hold: the footer's count is the registry's size and every ref
\* has its line; on a page whose text quotes no element line these are the
\* only numbered lines
C32_FooterCountsRegistry ==
  snap_out.done =>
    LET numbered == NumberedLines(snap_out.text)
    IN /\ EndsWith(snap_out.text, SnapshotFooter(RegistrySize(snap_out.registry)))
       /\ \A r \in DOMAIN snap_out.registry : \E ln \in numbered : ln[2] = r
       /\ snap_pv.nodes # QuotingTree =>
            Cardinality(numbered) = RegistrySize(snap_out.registry)

(***************************************************************************)
(* Claims about the v7 engine's public boundary (checked under SpecV7)     *)
(***************************************************************************)
UnguardedActions_v7 ==
  { "close", "screenshot", "scroll", "back", "forward", "press", "new_tab",
    "switch_tab", "close_tab" }

\* C27: in the v7 engine a failing teardown step of close, or a failing
\* page or protocol operation of screenshot, scroll, back, forward, press,
\* new_tab, switch_tab or close_tab, comes back as an error string: no
\* exception leaves browser_act.
C27_NoExceptionEscapes ==
  v7.last.action \in UnguardedActions_v7 =>
    v7.last.raised = ""

\* what does hold: without a failing operation nothing is raised, and
\* navigate and the session start report their failures as strings
V7RaisesOnlyOnFailure ==
  /\ v7.last.faults = {} => v7.last.raised = ""
  /\ v7.last.action = "navigate" => v7.last.raised = ""
  /\ v7.last.raised # "" => v7.last.action \in UnguardedActions_v7

\* the actions whose load-state waits are those of _smart_wait and
\* _wait_for_navigation_settle
SettlingActions == { "navigate", "click", "back", "forward", "new_tab" }

\* C22: _smart_wait and _wait_for_navigation_settle never raise, whatever
\* the outcome of the load-state waits, and always finish with the final
\* short sleep: every load-state wait of a call is followed, after the
\* other load-state waits of the same settle wait, by the sleep.
C22_SettleWaitsFinish ==
  \A i \in DOMAIN last.interaction :
    (last.action \in SettlingActions /\ IsLoadStateWait(last.interaction[i])) =>
      \E j \in (i + 1)..Len(last.interaction) :
        /\ last.interaction[j] = "sleep"
        /\ \A k \in (i + 1)..(j - 1) : IsLoadStateWait(last.interaction[k])

(***************************************************************************)
(* Claims about concurrent calls (checked under SpecTasks)                 *)
(***************************************************************************)
\* get_page returned to a call of the coroutine
Acquired(t) == task[t].page # None
SamePage(t, u) == task[t].page = task[u].page /\ task[t].cdp = task[u].cdp
OneLaunch ==
  /\ launches <= 1
  /\ \A t \in Tasks : Acquired(t) => launches = 1
  /\ \A t, u \in Tasks : Acquired(t) /\ Acquired(u) => SamePage(t, u)

C12_PagePaired == \A t \in Tasks : Acquired(t) => task[t].cdp = task[t].page

\* a call of the coroutine is in _dispatch (or in the snapshot of
\* browser_act's error path)
InDispatch(t) ==
  task[t].pc \in { "goto", "settle", "new_page", "tab_attach", "tab_enable", "tab_goto",
                   "tab_settle", "close_page", "snap_title", "snap_tree", "snap_frame" }

\* C13: actions are serialized: while one call is between the steps of its
\* dispatch (interaction, settle wait, snapshot, registry write), no other
\* call takes a step of its own dispatch
C13_Serialized ==
  \A t, u \in Tasks : t # u => ~(InDispatch(t) /\ InDispatch(u))

\* C17: the registry stored for a page is never changed in place: what
\* _REGISTRY holds for a page is what was stored there last
C17_RegistryReplacedWholesale ==
  \A p \in DOMAIN _REGISTRY : _REGISTRY[p] = published[p]

(***************************************************************************)
(* Claims about a browser that stops answering (checked under SpecHang)    *)
(***************************************************************************)
Calling(t) == task[t].pc # "idle"

\* a coroutine is at a step that needs a page id or a tab beyond the bounds
BoundReached ==
  \E t \in Tasks :
    \/ task[t].pc = "launch_context" /\ FreshIds = {}
    \/ /\ task[t].pc = "new_page"
       /\ task[t].ctx = session._context
       /\ (FreshIds = {} \/ Len(pages) >= MaxTabs)

\* C23: every browser_act call eventually returns even if the browser stops
\* answering, every protocol call and page operation of an action being
\* bounded by a timeout.
C23_CallsReturn == \A t \in Tasks : Calling(t) ~> (~Calling(t) \/ BoundReached)

\* a call returns unless the browser stopped answering
C23_CallsReturnWhileAnswering ==
  \A t \in Tasks : Calling(t) ~> (~Calling(t) \/ BoundReached \/ Hung)
====
